---- MODULE Spec2Model ----
(***************************************************************************)
(* flatback: a generator (the routine) is driven by step / stepAsync.  At   *)
(* each yield the produced value is classified by getNextResult, driven by  *)
(* handleFunction (callback fan-in) or handleArray (collection fan-out),    *)
(* and the routine is resumed with the outcome.                             *)
(*                                                                         *)
(* JavaScript runs one turn of the event loop to completion, so every       *)
(* action below is one turn: an adapter call, a timer callback or a promise *)
(* reaction, together with every synchronous call it makes.  The call chain *)
(* step -> getNextResult -> handleFunction -> body -> finishedCheck ->      *)
(* callback -> step ... is a family of mutually recursive operators over a  *)
(* record st holding the heap; a thrown exception is the field st.exc,      *)
(* which every caller tests exactly where the source would see the throw.   *)
(***************************************************************************)
EXTENDS Integers, Sequences, FiniteSets, TLC

(***************************************************************************)
(* Bounds of the model.                                                    *)
(***************************************************************************)
MaxArity == 2
MaxBodyLen == 3
MaxElemBodyLen == 2
MaxLen == 2
MaxYields == 2

(***************************************************************************)
(* JavaScript values.  t is the class string that                          *)
(* Object.prototype.toString reports, s the printable form String(value)   *)
(* of a primitive or the message of an error, a the elements of an array.  *)
(***************************************************************************)
Val(t, s, a) == [t |-> t, s |-> s, a |-> a]
Undefined == Val("Undefined", "undefined", <<>>)
Null == Val("Null", "null", <<>>)
Str(s) == Val("String", s, <<>>)
Num(s) == Val("Number", s, <<>>)
Arr(a) == Val("Array", "", a)
Err(m) == Val("Error", m, <<>>)
TypeErr(m) == Val("TypeError", m, <<>>)

\* ToBoolean, as used by if (err), if (!firstErr), if (!rejectedCallback)
Truthy(v) ==
  ~ \/ v.t \in {"Undefined", "Null"}
    \/ (v.t = "Number" /\ v.s = "0")
    \/ (v.t = "String" /\ v.s = "")

\* the sequence f[1], ..., f[n], built element by element
RECURSIVE Tuple(_, _)
Tuple(f, n) == IF n = 0 THEN <<>> ELSE Append(Tuple(f, n - 1), f[n])

\* new Array(n): n holes, each read back as undefined
NewArray(n) == Tuple([i \in 1..n |-> Undefined], n)
\* new Array(n).fill(true)
NewFlags(n) == Tuple([i \in 1..n |-> TRUE], n)

(***************************************************************************)
(* Inputs.  A yielded value (request) is described by what getNextResult   *)
(* looks at: t is its class string; for a Function n is its length and     *)
(* body what calling it does; for an Array elems are its elements; for a   *)
(* Promise s says how it settles and v with which value; for anything else *)
(* s is String(value).                                                     *)
(***************************************************************************)
Req(t, n, body, elems, s, v) ==
  [t |-> t, n |-> n, body |-> body, elems |-> elems, s |-> s, v |-> v]
ReqUndefined == Req("Undefined", 0, <<>>, <<>>, "undefined", Undefined)
ReqFunction(n, body) == Req("Function", n, body, <<>>, "", Undefined)
ReqArray(elems) == Req("Array", Len(elems), <<>>, elems, "", Undefined)
ReqPromise(s, v) == Req("Promise", 0, <<>>, <<>>, s, v)
ReqOther(t, s) == Req(t, 0, <<>>, <<>>, s, Undefined)

(***************************************************************************)
(* What a yielded function does when called with its callbacks cb1..cbn:   *)
(* a sequence of operations, each of which calls callback k now ("call"),  *)
(* hands callback k to a timer that calls it on a later turn ("defer"), or *)
(* throws args[1] ("throw"); at the end of the sequence the function       *)
(* returns returned(body).  The operation at position j of a body passes   *)
(* CallArgs(j) to the callback, so that different calls are told apart.    *)
(***************************************************************************)
BodyOp(op, k, args) == [op |-> op, k |-> k, args |-> args]
Digit(j) == <<"1", "2", "3", "4", "5", "6", "7", "8", "9">>[j]
CallArgs(j) ==
  IF j % 3 = 0 THEN <<>> ELSE <<Str("e" \o Digit(j)), Str("r" \o Digit(j))>>
Returned == Str("returned")
\* the promise that the function flatback.async made returns
PromiseObject == Val("Promise", "[object Promise]", <<>>)
\* what calling a yielded function with body body returns: the function that
\* flatback.func made has no return statement and returns undefined, the
\* function that flatback.async made returns its promise
returned(body) ==
  IF \E j \in DOMAIN body : body[j].op = "exec" THEN Undefined
  ELSE IF \E j \in DOMAIN body : body[j].op = "execAsync" THEN PromiseObject
  ELSE Returned

\* the values a body may throw or a promise may reject with: an Error
\* object and the falsy number 0 (JavaScript lets any value be thrown)
ThrowVals == {Err("oops"), Num("0")}

SlotOps(n) == {BodyOp(o, k, <<>>) : o \in {"call", "defer"}, k \in 1..n}
SlotSeqs(n, len) == UNION {[1..l -> SlotOps(n)] : l \in 0..len}
WithArgs(b) ==
  Tuple([j \in DOMAIN b |-> BodyOp(b[j].op, b[j].k, CallArgs(j))], Len(b))
Bodies(n, len) ==
  {WithArgs(b) : b \in SlotSeqs(n, len)} \cup
  {Append(WithArgs(b), BodyOp("throw", 0, <<e>>)) :
     b \in SlotSeqs(n, len - 1), e \in ThrowVals}

Tasks(len) ==
  UNION {{ReqFunction(n, b) : b \in Bodies(n, len)} : n \in 0..MaxArity}
Promises ==
  {ReqPromise("resolve", Str("success"))} \cup
  {ReqPromise("reject", e) : e \in ThrowVals}
Malformed == {ReqOther("Number", "180"), ReqOther("Null", "null")}
Leaves(len) ==
  {ReqUndefined, ReqArray(<<>>)} \cup Tasks(len) \cup Promises \cup Malformed
\* arrays that are elements of arrays
Nested ==
  {ReqArray(<<ReqFunction(1, <<BodyOp("call", 1, CallArgs(1))>>)>>),
   ReqArray(<<ReqFunction(1, <<BodyOp("defer", 1, CallArgs(1))>>),
              ReqPromise("resolve", Str("success"))>>),
   ReqArray(<<ReqFunction(0, <<BodyOp("throw", 0, <<Err("oops")>>)>>)>>)}
\* the elements that stand next to a nested array
Beside ==
  {ReqUndefined, ReqPromise("resolve", Str("success")),
   ReqFunction(2, <<BodyOp("call", 1, CallArgs(1)),
                    BodyOp("defer", 2, CallArgs(2))>>)}
Collections ==
  UNION {{ReqArray(Tuple(es, l)) : es \in [1..l -> Leaves(MaxElemBodyLen)]} :
           l \in 1..MaxLen}
  \cup {ReqArray(<<x>>) : x \in Nested}
  \cup {ReqArray(<<x, y>>) : x \in Nested, y \in Beside}
  \cup {ReqArray(<<y, x>>) : x \in Nested, y \in Beside}
\* callback => setTimeout(() => callback(), 0)
DeferTask == ReqFunction(1, <<BodyOp("defer", 1, <<>>)>>)

\* A generator function: length is the number of parameters it declares, r
\* the routine that calling it constructs.  flatback.func and flatback.async
\* return a function of the same length, whose body ("exec", "execAsync")
\* constructs the routine with the arguments of the call and starts it.
GenFunction(length, r) == [length |-> length, r |-> r]
\* defineLength that leaves the length of the function at 0
lengthNotDefined(genFunction, op) ==
  ReqFunction(0, <<BodyOp(op, genFunction.r, <<>>)>>)
\* Object.defineProperty(exec, "length", {value: genFunction.length}), where
\* calling exec is the one operation op
defineLength(genFunction, op) ==
  ReqFunction(genFunction.length, <<BodyOp(op, genFunction.r, <<>>)>>)
func(genFunction) == defineLength(genFunction, "exec")
async(genFunction) == defineLength(genFunction, "execAsync")
\* the routine of a yielded flatback.func or flatback.async function is
\* routine 2
Inner == 2
Invocables(n) == {func(GenFunction(n, Inner)), async(GenFunction(n, Inner))}

Requests == Leaves(MaxBodyLen) \cup Collections \cup {DeferTask}

(***************************************************************************)
(* A routine (generator) is a straight-line program of yields.  Each step  *)
(* yields req; catch says whether the yield sits in a try/catch of the     *)
(* routine.  After its last step the routine returns FinalValue.  The      *)
(* first yield of a program is any request; the yields after it are drawn  *)
(* from LaterRequests: a deferred success, a synchronous success and a     *)
(* synchronous failure.                                                    *)
(***************************************************************************)
FinalValue == Str("final")
LaterRequests ==
  {ReqUndefined, ReqFunction(1, <<BodyOp("call", 1, CallArgs(1))>>),
   ReqOther("Number", "180")}
Steps(reqs) == [req : reqs, catch : BOOLEAN]

\* The routine of a yielded flatback.func function gets the callbacks of the
\* yield as its arguments.  Its steps yield undefined, yield a function that
\* calls argument k of the routine ("arg"), yield a function that throws,
\* or throw by themselves (Raise: the routine's own throw statement).
Raise(e) == Req("Raise", 0, <<>>, <<>>, "", e)
InnerRequests ==
  {ReqUndefined, ReqFunction(0, <<BodyOp("throw", 0, <<Err("oops")>>)>>)} \cup
  {ReqFunction(0, <<BodyOp("arg", k, <<Str("inner")>>)>>) : k \in 1..MaxArity}
InnerSteps ==
  Steps(InnerRequests) \cup {[req |-> Raise(e), catch |-> FALSE] : e \in ThrowVals}

\* Calling a generator function binds its parameters before the generator
\* object exists; a destructuring parameter or a default value may throw
\* then.  ctor is Null if the call returns a generator, else what it throws.
ConstructionError == TypeErr("Cannot destructure property 'a' of 'undefined'")
Constructions == {Null, ConstructionError}

(***************************************************************************)
(* State.                                                                  *)
(*   gens     the routines: program, the step they are suspended at (pc),  *)
(*            status constructed / suspended / done / failed, and ctor,    *)
(*            what constructing the routine throws (Null: nothing),        *)
(*            length, the number of parameters of the generator function,  *)
(*            args, the fan-in whose callbacks are its arguments (0: none) *)
(*            promise, the promise execAsync made for the routine when it  *)
(*            is the routine of a yielded flatback.async function          *)
(*   fanins   one record per handleFunction call: its closure variables    *)
(*            waitingCount, waitingFlags, results (index k+1 is slot k)    *)
(*            and the callback it reports to                               *)
(*   fanouts  one record per handleArray call: waitingCount, results,      *)
(*            firstErr and the callback it reports to                      *)
(*   timers   the pending setTimeout callbacks                             *)
(*   promises the pending reactions registered by value.then               *)
(*   adapter  the adapter call made: "" before it, then exec, async, once  *)
(*   settled  the promise returned by the flatback.async function that the *)
(*            host called (routine 1)                                      *)
(*   uncaught the exceptions that left a turn uncaught                     *)
(*   log      history of what happened, in order (turn = event-loop turn)  *)
(***************************************************************************)
VARIABLES gens, fanins, fanouts, timers, promises, adapter, settled, uncaught,
          log, turn
vars == <<gens, fanins, fanouts, timers, promises, adapter, settled, uncaught,
          log, turn>>

NoExc == [thrown |-> FALSE, v |-> Undefined]
Thrown(v) == [thrown |-> TRUE, v |-> v]
Caught(st) == [st EXCEPT !.exc = NoExc]

Cb(kind, id, i) == [kind |-> kind, id |-> id, i |-> i]
NoCb == Cb("none", 0, 0)

Ev(e, id, k, tag, err, v, t) ==
  [e |-> e, id |-> id, k |-> k, tag |-> tag, err |-> err, v |-> v, turn |-> t]
Log(st, e, id, k, tag, err, v) ==
  [st EXCEPT !.log = Append(@, Ev(e, id, k, tag, err, v, st.turn))]

Src(kind, id) == [kind |-> kind, id |-> id]

RECURSIVE step(_, _, _, _), stepAsync(_, _, _, _), getNextResult(_, _, _),
          handleArray(_, _, _), forEach(_, _, _, _),
          elementCallback(_, _, _, _, _), handleFunction(_, _, _),
          finishedCheck(_, _, _, _), apply(_, _, _, _), callSlot(_, _, _, _),
          invoke(_, _, _, _, _)

Timer(kind, cb, err, v, f, k, args) ==
  [kind |-> kind, cb |-> cb, err |-> err, v |-> v, f |-> f, k |-> k, args |-> args]

\* setTimeoutCallback that calls the callback at once, without a timer
callbackNow(st, cb, err, v) == invoke(st, Src("getNextResult", 0), cb, err, v)

\* a setTimeout whose timer is lost
setTimeoutLost(st, cb, err, v) == st

\* setTimeout(() => callback(err, v), 0)
setTimeoutCallback(st, cb, err, v) ==
  [st EXCEPT !.timers = Append(@, Timer("callback", cb, err, v, 0, 0, <<>>))]
\* the yielded function's own setTimeout(() => cbk(args), ms)
setTimeoutSlot(st, f, k, args) ==
  [st EXCEPT !.timers = Append(@, Timer("slot", NoCb, Null, Undefined, f, k, args))]

(***************************************************************************)
(* The host's generator object.  genRun lets the routine run on from the   *)
(* yield it is suspended at (or from its start) to its next yield or to    *)
(* its end.  gen.next(v) on a finished generator returns done and changes  *)
(* nothing; gen.throw(e) raises e inside the routine, which catches it     *)
(* only if the yield sits in a try/catch; otherwise e leaves gen.throw.    *)
(***************************************************************************)
\* const gen = genFunction.apply(null, args)
construct(st, r) ==
  IF st.gens[r].ctor = Null THEN st
  ELSE [st EXCEPT !.exc = Thrown(st.gens[r].ctor)]

\* constructWith that passes no arguments on: genFunction()
constructWithNoArguments(st, r, f) == construct(st, r)

\* const gen = genFunction.apply(null, Array.from(arguments)) in the function
\* flatback.func returned, called with the callbacks of fan-in f (f = 0:
\* called without arguments)
constructWith(st, r, f) == construct([st EXCEPT !.gens[r].args = f], r)

genRun(st, r) ==
  LET g == st.gens[r]
  IN IF g.pc < Len(g.prog)
     THEN IF g.prog[g.pc + 1].req.t = "Raise"
          THEN [Log(st, "throws", r, g.pc, "", g.prog[g.pc + 1].req.v, Undefined)
                  EXCEPT !.gens[r].status = "failed",
                         !.exc = Thrown(g.prog[g.pc + 1].req.v)]
          ELSE [st EXCEPT !.gens[r].pc = g.pc + 1,
                          !.gens[r].status = "suspended"]
     ELSE [st EXCEPT !.gens[r].status = "done"]

Live(g) == g.status \in {"constructed", "suspended"}

genNext(st, r, v) ==
  LET g == st.gens[r]
  IN IF Live(g)
     THEN genRun(Log(st, "resume", r, g.pc, "next", Null, v), r)
     ELSE Log(st, "resumeFinished", r, g.pc, "next", Null, v)

genThrow(st, r, e) ==
  LET g == st.gens[r]
  IN IF g.status = "suspended" /\ g.prog[g.pc].catch
     THEN genRun(Log(st, "resume", r, g.pc, "throw", e, Undefined), r)
     ELSE IF Live(g)
     THEN [Log(st, "resume", r, g.pc, "throw", e, Undefined)
             EXCEPT !.gens[r].status = "failed", !.exc = Thrown(e)]
     ELSE [Log(st, "resumeFinished", r, g.pc, "throw", e, Undefined)
             EXCEPT !.exc = Thrown(e)]

\* the promise of the execAsync call that runs routine r: resolve / reject
\* settle it the first time only
promiseOf(st, r) == IF r = 1 THEN st.settled ELSE st.gens[r].promise
settle(st, r, p) ==
  IF r = 1 THEN [st EXCEPT !.settled = p] ELSE [st EXCEPT !.gens[r].promise = p]
resolve(st, r, v) ==
  LET st1 == Log(st, "resolve", r, 0, promiseOf(st, r).state, Null, v)
  IN IF promiseOf(st, r).state = "pending"
     THEN settle(st1, r, [state |-> "resolved", v |-> v])
     ELSE st1
reject(st, r, e) ==
  LET st1 == Log(st, "reject", r, 0, promiseOf(st, r).state, e, Undefined)
  IN IF promiseOf(st, r).state = "pending"
     THEN settle(st1, r, [state |-> "rejected", v |-> e])
     ELSE st1

(***************************************************************************)
(* step(gen, err, result)                                                  *)
(***************************************************************************)
step(st, r, err, result) ==
  LET st1 == IF Truthy(err) THEN genThrow(st, r, err) ELSE genNext(st, r, result)
      g == st1.gens[r]
  IN IF st1.exc.thrown THEN st1
     ELSE IF g.status = "suspended"
     THEN getNextResult(st1, g.prog[g.pc].req, Cb("step", r, g.pc))
     ELSE st1

\* stepAsync without its try/catch: what the routine throws leaves it
stepAsyncNoCatch(st, r, err, result) ==
  LET st1 == IF Truthy(err) THEN genThrow(st, r, err) ELSE genNext(st, r, result)
      g == st1.gens[r]
  IN IF st1.exc.thrown THEN st1
     ELSE IF g.status = "suspended"
     THEN getNextResult(st1, g.prog[g.pc].req, Cb("stepAsync", r, g.pc))
     ELSE resolve(st1, r, IF Live(st.gens[r]) THEN FinalValue ELSE Undefined)

\* stepAsync that takes every failure argument other than null and undefined
\* for a failure
stepAsyncNullTest(st, r, err, result) ==
  LET st1 == IF err \notin {Null, Undefined} THEN genThrow(st, r, err)
             ELSE genNext(st, r, result)
      g == st1.gens[r]
  IN IF st1.exc.thrown THEN reject(Caught(st1), r, st1.exc.v)
     ELSE IF g.status = "suspended"
     THEN getNextResult(st1, g.prog[g.pc].req, Cb("stepAsync", r, g.pc))
     ELSE resolve(st1, r, IF Live(st.gens[r]) THEN FinalValue ELSE Undefined)

(***************************************************************************)
(* stepAsync(gen, err, result) inside async: as step, but a throw of the   *)
(* routine rejects the promise and its return resolves it.                 *)
(***************************************************************************)
stepAsync(st, r, err, result) ==
  LET st1 == IF Truthy(err) THEN genThrow(st, r, err) ELSE genNext(st, r, result)
      g == st1.gens[r]
  IN IF st1.exc.thrown THEN reject(Caught(st1), r, st1.exc.v)
     ELSE IF g.status = "suspended"
     THEN getNextResult(st1, g.prog[g.pc].req, Cb("stepAsync", r, g.pc))
     ELSE resolve(st1, r, IF Live(st.gens[r]) THEN FinalValue ELSE Undefined)

(***************************************************************************)
(* the callback of once(value, resolvedCallback, rejectedCallback)         *)
(***************************************************************************)
\* the arguments resolvedCallback.apply(null, result) calls the handler
\* with: the elements of an array; none for undefined, null and an object
\* that has no length
argumentList(result) == IF result.t = "Array" THEN result ELSE Arr(<<>>)
onceCallback(st, hasRejected, err, result) ==
  IF Truthy(err)
  THEN IF ~hasRejected
       THEN [st EXCEPT !.exc = Thrown(err)]
       ELSE Log(st, "rejectedCallback", 0, 0, "", err, Undefined)
  ELSE \* resolvedCallback.apply(null, result): an argument list that is
       \* neither an object nor undefined / null is a TypeError; the event
       \* records the arguments the handler is called with
       IF result.t \in {"String", "Number"}
       THEN [st EXCEPT !.exc =
               Thrown(TypeErr("CreateListFromArrayLike called on non-object"))]
       ELSE Log(st, "resolvedCallback", 0, 0, "", Null, argumentList(result))

\* calling one of the callbacks that getNextResult, handleArray and
\* handleFunction are given; from says who calls
invoke(st, from, cb, err, result) ==
  LET st1 == Log(Log(st, "emit", from.id, 0, from.kind, err, result),
                 "callback", cb.id, cb.i, cb.kind, err, result)
  IN CASE cb.kind = "step" -> step(st1, cb.id, err, result)
       [] cb.kind = "stepAsync" -> stepAsync(st1, cb.id, err, result)
       [] cb.kind = "element" -> elementCallback(st1, cb.id, cb.i, err, result)
       [] cb.kind = "once" -> onceCallback(st1, cb.id = 1, err, result)

(***************************************************************************)
(* getNextResult(value, callback)                                          *)
(***************************************************************************)
\* then that hands on the resolved value wrapped in an array
thenWrapped(st, value, cb) ==
  [st EXCEPT !.promises =
     Append(@, [cb |-> cb, s |-> value.s,
                v |-> IF value.s = "resolve" THEN Arr(<<value.v>>) ELSE value.v])]

\* value.then(onResolved, onRejected): the reaction waits for the promise
then(st, value, cb) ==
  [st EXCEPT !.promises = Append(@, [cb |-> cb, s |-> value.s, v |-> value.v])]

\* classificationError whose message leaves out String(value)
classificationErrorNoValue(value) ==
  TypeErr("You may only yield a function, promise, undefined or an array of these to flatback.  Recieved "
          \o value.t)

\* the TypeError of the last branch: its message names classString and
\* String(value)
classificationError(value) ==
  TypeErr("You may only yield a function, promise, undefined or an array of these to flatback.  Recieved "
          \o value.t \o ": " \o value.s)

\* value(): a yielded function that declares no callback
callNoCallbacks(st, value) ==
  apply(Log(st, "enter", 0, 0, "", Null, Undefined), 0, value.body, 1)

\* called that reports the success through a timer
calledLater(st1, cb) ==
  IF st1.exc.thrown
  THEN invoke(Caught(st1), Src("getNextResult", 0), cb, st1.exc.v, Undefined)
  ELSE setTimeoutCallback(st1, cb, Null, Arr(<<>>))

\* after value(): the catch block, or callback(null, [])
called(st1, cb) ==
  IF st1.exc.thrown
  THEN invoke(Caught(st1), Src("getNextResult", 0), cb, st1.exc.v, Undefined)
  ELSE invoke(st1, Src("getNextResult", 0), cb, Null, Arr(<<>>))

getNextResult(st, value, cb) ==
  LET here == Src("getNextResult", 0)
  IN CASE value.t = "Undefined" ->
            setTimeoutCallback(st, cb, Null, Arr(<<>>))
       [] value.t = "Array" ->
            IF Len(value.elems) = 0
            THEN setTimeoutCallback(st, cb, Null, Arr(<<>>))
            ELSE handleArray(st, value, cb)
       [] value.t = "Function" ->
            IF value.n = 0
            THEN called(callNoCallbacks(st, value), cb)
            ELSE handleFunction(st, value, cb)
       [] value.t = "Promise" -> then(st, value, cb)
       [] OTHER -> invoke(st, here, cb, classificationError(value), Undefined)

(***************************************************************************)
(* handleArray(valueArray, callback)                                       *)
(***************************************************************************)
newFanout(valueArray, cb) ==
  [valueArray |-> valueArray.elems, waitingCount |-> Len(valueArray.elems),
   results |-> NewArray(Len(valueArray.elems)), firstErr |-> Null, cb |-> cb]

\* elementCallback that stores results in the order of completion
elementCallbackInCompletionOrder(st, o, index, err, result) ==
  LET fo == st.fanouts[o]
      at == Len(fo.valueArray) - fo.waitingCount + 1
  IN IF ~Truthy(fo.firstErr) /\ Truthy(err)
     THEN invoke([st EXCEPT !.fanouts[o].firstErr = err],
                 Src("handleArray", o), fo.cb, err, Undefined)
     ELSE IF ~Truthy(fo.firstErr)
     THEN LET fo2 == [fo EXCEPT !.results[at] = result, !.waitingCount = @ - 1]
              st1 == [st EXCEPT !.fanouts[o] = fo2]
          IN IF fo2.waitingCount = 0
             THEN invoke(st1, Src("handleArray", o), fo.cb, Null, Arr(fo2.results))
             ELSE st1
     ELSE st

\* the callback handleArray gives to getNextResult for element index
elementCallback(st, o, index, err, result) ==
  LET fo == st.fanouts[o]
  IN IF ~Truthy(fo.firstErr) /\ Truthy(err)
     THEN invoke([st EXCEPT !.fanouts[o].firstErr = err],
                 Src("handleArray", o), fo.cb, err, Undefined)
     ELSE IF ~Truthy(fo.firstErr)
     THEN LET fo2 == [fo EXCEPT !.results[index] = result,
                                !.waitingCount = @ - 1]
              st1 == [st EXCEPT !.fanouts[o] = fo2]
          IN IF fo2.waitingCount = 0
             THEN invoke(st1, Src("handleArray", o), fo.cb, Null, Arr(fo2.results))
             ELSE st1
     ELSE st

\* if (!firstErr) in the forEach body
visits(st, o) == ~Truthy(st.fanouts[o].firstErr)

\* forEach that goes on to the next element only when the elements before
\* it have completed
RECURSIVE forEachSerial(_, _, _, _)
forEachSerial(st, o, elems, i) ==
  IF i > Len(elems) \/ st.exc.thrown THEN st
  ELSE IF visits(st, o) /\ st.fanouts[o].waitingCount = Len(elems) - i + 1
  THEN forEachSerial(getNextResult(Log(st, "visit", o, i, elems[i].t, Null, Undefined),
                                   elems[i], Cb("element", o, i)),
                     o, elems, i + 1)
  ELSE forEachSerial(st, o, elems, i + 1)

\* valueArray.forEach((value, index) => ...), from element i on; an
\* exception thrown out of the function ends the loop
forEach(st, o, elems, i) ==
  IF i > Len(elems) \/ st.exc.thrown THEN st
  ELSE IF visits(st, o)
  THEN forEach(getNextResult(Log(st, "visit", o, i, elems[i].t, Null, Undefined),
                             elems[i], Cb("element", o, i)),
               o, elems, i + 1)
  ELSE forEach(st, o, elems, i + 1)

handleArray(st, valueArray, cb) ==
  LET o == Len(st.fanouts) + 1
      st1 == [st EXCEPT !.fanouts = Append(@, newFanout(valueArray, cb))]
  IN forEach(st1, o, valueArray.elems, 1)

(***************************************************************************)
(* handleFunction(valueFunction, callback)                                 *)
(***************************************************************************)
\* newFanin that does not count the body's own completion
newFaninNoBodySlot(valueFunction, cb) ==
  [n |-> valueFunction.n, waitingCount |-> valueFunction.n,
   waitingFlags |-> NewFlags(valueFunction.n + 1),
   results |-> NewArray(valueFunction.n + 1), cb |-> cb]

newFanin(valueFunction, cb) ==
  [n |-> valueFunction.n, waitingCount |-> valueFunction.n + 1,
   waitingFlags |-> NewFlags(valueFunction.n + 1),
   results |-> NewArray(valueFunction.n + 1), cb |-> cb]

\* slice1 that keeps results[0]
slice0(results) == results

\* results.slice(1)
slice1(results) == SubSeq(results, 2, Len(results))

\* finishedCheck that does not test waitingFlags[index]
finishedCheckUnguarded(st, f, index, args) ==
  LET fi == st.fanins[f]
      fi2 == [fi EXCEPT !.waitingFlags[index + 1] = FALSE,
                        !.results[index + 1] = Arr(args),
                        !.waitingCount = @ - 1]
      st1 == [st EXCEPT !.fanins[f] = fi2]
  IN IF fi2.waitingCount = 0
     THEN IF fi.n = 1
          THEN invoke(st1, Src("handleFunction", f), fi.cb, Null, fi2.results[2])
          ELSE invoke(st1, Src("handleFunction", f), fi.cb, Null,
                      Arr(slice1(fi2.results)))
     ELSE st1

\* finishedCheck whose body-returned flag is shared by all fan-ins
finishedCheckShared(st, f, index, args) ==
  LET fi == st.fanins[f]
      shared(g) == IF g = f THEN st.fanins[g]
                   ELSE [st.fanins[g] EXCEPT !.waitingFlags[1] = FALSE]
      st0 == [st EXCEPT !.fanins =
                Tuple([g \in 1..Len(st.fanins) |-> shared(g)], Len(st.fanins))]
  IN IF fi.waitingFlags[index + 1]
     THEN LET fi2 == [fi EXCEPT !.waitingFlags[index + 1] = FALSE,
                                !.results[index + 1] = Arr(args),
                                !.waitingCount = @ - 1]
              st1 == [st0 EXCEPT !.fanins[f] = fi2]
          IN IF fi2.waitingCount = 0
             THEN IF fi.n = 1
                  THEN invoke(st1, Src("handleFunction", f), fi.cb, Null,
                              fi2.results[2])
                  ELSE invoke(st1, Src("handleFunction", f), fi.cb, Null,
                              Arr(slice1(fi2.results)))
             ELSE st1
     ELSE st

\* finishedCheck that reports the success through a timer
finishedCheckDeferred(st, f, index, args) ==
  LET fi == st.fanins[f]
  IN IF fi.waitingFlags[index + 1]
     THEN LET fi2 == [fi EXCEPT !.waitingFlags[index + 1] = FALSE,
                                !.results[index + 1] = Arr(args),
                                !.waitingCount = @ - 1]
              st1 == [st EXCEPT !.fanins[f] = fi2]
          IN IF fi2.waitingCount = 0
             THEN IF fi.n = 1
                  THEN setTimeoutCallback(st1, fi.cb, Null, fi2.results[2])
                  ELSE setTimeoutCallback(st1, fi.cb, Null,
                                          Arr(slice1(fi2.results)))
             ELSE st1
     ELSE st

\* finishedCheck that stores the arguments in the order of the calls
finishedCheckByArrival(st, f, index, args) ==
  LET fi == st.fanins[f]
  IN IF fi.waitingFlags[index + 1]
     THEN LET fi2 == [fi EXCEPT !.waitingFlags[index + 1] = FALSE,
                                !.results[fi.n + 2 - fi.waitingCount] = Arr(args),
                                !.waitingCount = @ - 1]
              st1 == [st EXCEPT !.fanins[f] = fi2]
          IN IF fi2.waitingCount = 0
             THEN IF fi.n = 1
                  THEN invoke(st1, Src("handleFunction", f), fi.cb, Null,
                              fi2.results[2])
                  ELSE invoke(st1, Src("handleFunction", f), fi.cb, Null,
                              Arr(slice1(fi2.results)))
             ELSE st1
     ELSE st

\* finishedChecks[index] called with arguments args
finishedCheck(st, f, index, args) ==
  LET fi == st.fanins[f]
  IN IF fi.waitingFlags[index + 1]
     THEN LET fi2 == [fi EXCEPT !.waitingFlags[index + 1] = FALSE,
                                !.results[index + 1] = Arr(args),
                                !.waitingCount = @ - 1]
              st1 == [st EXCEPT !.fanins[f] = fi2]
          IN IF fi2.waitingCount = 0
             THEN IF fi.n = 1
                  THEN invoke(st1, Src("handleFunction", f), fi.cb, Null,
                              fi2.results[2])
                  ELSE invoke(st1, Src("handleFunction", f), fi.cb, Null,
                              Arr(slice1(fi2.results)))
             ELSE st1
     ELSE st

\* finishedChecks[k] is called: by the body or by a timer the body started
\* (k >= 1), or by handleFunction once the body has returned (k = 0)
callSlot(st, f, k, args) ==
  finishedCheck(Log(st, "slot", f, k, "", Null, Arr(args)), f, k, args)

\* the body of the yielded function runs, from its operation j on
\* the statement after a call the body made: what the call threw leaves
\* the body as well
goOn(st1, f, body, j) ==
  IF st1.exc.thrown THEN st1 ELSE apply(st1, f, body, j + 1)

\* the same after a call whose exception is the body's own failure
goOnOrRaise(st1, f, body, j) ==
  IF st1.exc.thrown
  THEN Log(st1, "raise", f, 0, "", st1.exc.v, Undefined)
  ELSE apply(st1, f, body, j + 1)

\* step(gen) in the function flatback.func returned, if gen was constructed
start(st0, r) ==
  IF st0.exc.thrown THEN st0 ELSE step(st0, r, Undefined, Undefined)

\* the promise executor of async for routine r: what stepAsync throws rejects
\* the promise
executor(st, r) ==
  IF st.exc.thrown THEN reject(Caught(st), r, st.exc.v) ELSE st

\* new Promise(...) with stepAsync(gen) in the function flatback.async
\* returned, if gen was constructed
startAsync(st0, r) ==
  IF st0.exc.thrown THEN st0
  ELSE executor(stepAsync(st0, r, Undefined, Undefined), r)

\* argument k of the inner routine is called; without such an argument the
\* call is a TypeError
callArgument(st, k, args) ==
  LET a == st.gens[Inner].args
  IN IF a = 0 \/ k > st.fanins[a].n
     THEN [st EXCEPT !.exc = Thrown(TypeErr("callback is not a function"))]
     ELSE callSlot(st, a, k, args)

apply(st, f, body, j) ==
  IF j > Len(body) THEN Log(st, "return", f, 0, "", Null, returned(body))
  ELSE CASE body[j].op = "call" ->
              goOn(callSlot(st, f, body[j].k, body[j].args), f, body, j)
         [] body[j].op = "defer" ->
              apply(setTimeoutSlot(Log(st, "defer", f, body[j].k, "", Null,
                                       Arr(body[j].args)),
                                   f, body[j].k, body[j].args),
                    f, body, j + 1)
         [] body[j].op = "throw" ->
              [Log(st, "raise", f, 0, "", body[j].args[1], Undefined)
                 EXCEPT !.exc = Thrown(body[j].args[1])]
         [] body[j].op = "exec" ->
              \* the function flatback.func returned: lines 10-11
              goOnOrRaise(start(constructWith(st, body[j].k, f), body[j].k),
                          f, body, j)
         [] body[j].op = "execAsync" ->
              \* the function flatback.async returned: lines 55-77
              goOnOrRaise(startAsync(constructWith(st, body[j].k, f), body[j].k),
                          f, body, j)
         [] body[j].op = "arg" ->
              goOnOrRaise(callArgument(st, body[j].k, body[j].args), f, body, j)

\* handleFunction whose catch block does not return
handleFunctionNoReturn(st, valueFunction, cb) ==
  LET f == Len(st.fanins) + 1
      st1 == [st EXCEPT !.fanins = Append(@, newFanin(valueFunction, cb))]
      st2 == apply(Log(st1, "enter", f, 0, "", Null, Undefined), f,
                   valueFunction.body, 1)
      st3 == IF st2.exc.thrown
             THEN invoke(Caught(st2), Src("handleFunction", f), cb, st2.exc.v,
                         Undefined)
             ELSE st2
  IN IF st3.exc.thrown THEN st3
     ELSE callSlot(st3, f, 0, <<returned(valueFunction.body)>>)

\* after valueFunction.apply: the catch block, or finishedChecks[0]
bodyEnded(st2, f, cb, value) ==
  IF st2.exc.thrown
  THEN invoke(Caught(st2), Src("handleFunction", f), cb, st2.exc.v, Undefined)
  ELSE callSlot(st2, f, 0, <<value>>)

handleFunction(st, valueFunction, cb) ==
  LET f == Len(st.fanins) + 1
      st1 == [st EXCEPT !.fanins = Append(@, newFanin(valueFunction, cb))]
  IN bodyEnded(apply(Log(st1, "enter", f, 0, "", Null, Undefined), f,
                     valueFunction.body, 1),
               f, cb, returned(valueFunction.body))

(***************************************************************************)
(* The turns.                                                              *)
(***************************************************************************)
Heap ==
  [gens |-> gens, fanins |-> fanins, fanouts |-> fanouts, timers |-> timers,
   promises |-> promises, settled |-> settled, log |-> log,
   turn |-> turn + 1, exc |-> NoExc]

\* the turn ends: the heap is what the calls left, an exception nobody caught
\* reaches the host
EndTurn(st) ==
  /\ gens' = st.gens
  /\ fanins' = st.fanins
  /\ fanouts' = st.fanouts
  /\ timers' = st.timers
  /\ promises' = st.promises
  /\ settled' = st.settled
  /\ log' = st.log
  /\ turn' = st.turn
  /\ uncaught' = IF st.exc.thrown THEN Append(uncaught, st.exc.v) ELSE uncaught

\* a routine before genFunction is called: its program, the number of
\* parameters genFunction declares and what constructing throws
NewRoutine(prog, length, ctor) ==
  [prog |-> prog, pc |-> 0, status |-> "constructed", ctor |-> ctor,
   length |-> length, args |-> 0,
   promise |-> [state |-> "pending", v |-> Undefined]]

Remove(seq, i) == SubSeq(seq, 1, i - 1) \o SubSeq(seq, i + 1, Len(seq))

Init ==
  /\ \/ \E l \in 0..(MaxYields - 1) :
          \E s \in Steps(Requests), tl \in [1..l -> Steps(LaterRequests)] :
            gens = <<NewRoutine(<<s>> \o Tuple(tl, l), 0, Null)>>
     \/ gens = <<NewRoutine(<<[req |-> ReqUndefined, catch |-> FALSE]>>, 0,
                             ConstructionError)>>
     \/ \E l \in 0..(MaxYields - 1), li \in 1..MaxYields, n \in 0..MaxArity :
          \E c \in BOOLEAN, tl \in [1..l -> Steps(LaterRequests)],
             in \in [1..li -> InnerSteps], invocable \in Invocables(n) :
            gens = <<NewRoutine(<<[req |-> invocable, catch |-> c]>>
                                  \o Tuple(tl, l), 0, Null),
                     NewRoutine(Tuple(in, li), n, Null)>>
  /\ fanins = <<>>
  /\ fanouts = <<>>
  /\ timers = <<>>
  /\ promises = <<>>
  /\ adapter = ""
  /\ settled = [state |-> "pending", v |-> Undefined]
  /\ uncaught = <<>>
  /\ log = <<>>
  /\ turn = 0

\* flatback.exec(genFunction), or calling the function flatback.func returned
Exec ==
  /\ adapter = ""
  /\ adapter' = "exec"
  /\ LET st == construct(Heap, 1)
     IN EndTurn(IF st.exc.thrown THEN st
                ELSE step(st, 1, Undefined, Undefined))

\* calling the function flatback.async returned: the generator is constructed
\* before new Promise(...), so what construction throws leaves execAsync; an
\* exception thrown inside the promise executor rejects the promise
Async ==
  /\ adapter = ""
  /\ adapter' = "async"
  /\ LET st0 == construct(Heap, 1)
     IN EndTurn(IF st0.exc.thrown THEN st0
                ELSE executor(stepAsync(st0, 1, Undefined, Undefined), 1))

\* flatback.once(value, resolvedCallback, rejectedCallback): value is the
\* request of a one-step program, rejectedCallback is given iff catch
Once ==
  /\ adapter = ""
  /\ gens[1].ctor = Null
  /\ Len(gens[1].prog) = 1
  /\ adapter' = "once"
  /\ EndTurn(getNextResult(Heap, gens[1].prog[1].req,
                           Cb("once", IF gens[1].prog[1].catch THEN 1 ELSE 0, 0)))

\* the callback of timer i runs: the callback of getNextResult, or a callback
\* of a yielded function
timerCallback(st0, i) ==
  LET t == st0.timers[i]
      st == [st0 EXCEPT !.timers = Remove(@, i)]
  IN IF t.kind = "callback"
     THEN invoke(st, Src("getNextResult", 0), t.cb, t.err, t.v)
     ELSE callSlot(st, t.f, t.k, t.args)

\* a pending timer runs
TimerFires(i) ==
  /\ i \in DOMAIN timers
  /\ EndTurn(timerCallback(Heap, i))
  /\ UNCHANGED adapter

\* the then-handler of promise reaction i runs: it defers the callback
reaction(st0, i) ==
  LET p == st0.promises[i]
      st == [st0 EXCEPT !.promises = Remove(@, i)]
  IN IF p.s = "resolve"
     THEN setTimeoutCallback(Log(st, "settle", p.cb.id, p.cb.i, p.cb.kind, Null, p.v),
                             p.cb, Null, p.v)
     ELSE setTimeoutCallback(Log(st, "settle", p.cb.id, p.cb.i, p.cb.kind, p.v,
                                 Undefined),
                             p.cb, p.v, Undefined)

\* a yielded promise settles and its reaction runs
PromiseReacts(i) ==
  /\ i \in DOMAIN promises
  /\ EndTurn(reaction(Heap, i))
  /\ UNCHANGED adapter

Next ==
  \/ Exec
  \/ Async
  \/ Once
  \/ \E i \in 1..Len(timers) : TimerFires(i)
  \/ \E i \in 1..Len(promises) : PromiseReacts(i)

Spec == Init /\ [][Next]_vars

\* The event loop takes a turn as long as a timer or a promise reaction is
\* pending.  Every turn advances turn, and while something is pending the
\* only turns of Next are TimerFires and PromiseReacts (the adapter is called
\* when nothing is pending yet), so the fairness condition is stated on the
\* turn counter.
Pending == timers # <<>> \/ promises # <<>>
EventLoopTurn == Pending /\ turn' = turn + 1
LiveSpec == Spec /\ WF_turn(EventLoopTurn)

(***************************************************************************)
(* Reading the history.                                                    *)
(***************************************************************************)
StepKinds == {"step", "stepAsync"}
\* a callback was called as callback(null, ...): a success
IsSuccess(ev) == ev.err = Null
\* the callbacks of the suspension of routine r at its yield s that were called
Resumptions(r, s) ==
  {i \in DOMAIN log : /\ log[i].e = "callback"
                      /\ log[i].tag \in StepKinds
                      /\ log[i].id = r
                      /\ log[i].k = s}
\* the resume operations (gen.next, gen.throw) made on routine r at yield s
Resumes(r, s) ==
  {i \in DOMAIN log : /\ log[i].e \in {"resume", "resumeFinished"}
                      /\ log[i].id = r
                      /\ log[i].k = s}
Suspensions == {rs \in (DOMAIN gens) \X (1..(MaxYields + 1)) : rs[2] <= Len(gens[rs[1]].prog)}
\* the calls of slot k of fan-in f, in order
SlotCalls(f, k) ==
  {i \in DOMAIN log : log[i].e = "slot" /\ log[i].id = f /\ log[i].k = k}
\* what fan-in f reported to its callback
Emits(f) ==
  {i \in DOMAIN log : /\ log[i].e = "emit"
                      /\ log[i].tag = "handleFunction"
                      /\ log[i].id = f}
Min(S) == CHOOSE x \in S : \A y \in S : x <= y

(***************************************************************************)
(* C1.  No suspension is resumed twice: for every yield of a routine, the  *)
(* callback that step / stepAsync handed to getNextResult is called at     *)
(* most once, so the routine gets at most one resume operation (gen.next   *)
(* or gen.throw) for that yield, whatever slots, exceptions, promise       *)
(* settlements and timers do, in whatever order.                           *)
(***************************************************************************)
C1_AtMostOneResumption ==
  \A rs \in Suspensions :
    /\ Cardinality(Resumptions(rs[1], rs[2])) <= 1
    /\ Cardinality(Resumes(rs[1], rs[2])) <= 1

\* a suspension was resumed and, after that, a slot of the fan-in that
\* resumed it was called again
C1_Witness ==
  \E i \in DOMAIN log, j \in DOMAIN log :
    /\ i < j
    /\ log[i].e = "callback" /\ log[i].tag \in StepKinds
    /\ log[j].e = "slot"
    /\ fanins[log[j].id].cb = Cb(log[i].tag, log[i].id, log[i].k)

(***************************************************************************)
(* C2.  A fan-in of a function that declares N >= 1 callbacks reports      *)
(* success only after slot 0 (the body returned) and every callback slot   *)
(* 1..N have each been called at least once: every success it emits comes  *)
(* later in the history than a call of each of its N + 1 slots, and in no   *)
(* state has it emitted a success while a waiting flag is still set.        *)
(***************************************************************************)
Successes(f) == {i \in Emits(f) : IsSuccess(log[i])}
C2_SuccessOnlyAfterAllSlots ==
  \A f \in DOMAIN fanins :
    fanins[f].n >= 1 =>
      \A i \in Successes(f) :
        \A k \in 0..fanins[f].n :
          /\ \E j \in SlotCalls(f, k) : j < i
          /\ ~fanins[f].waitingFlags[k + 1]

\* a two-callback fan-in reported success after its slots were first called
\* on three different turns, slot 2 before slot 1
C2_Witness ==
  \E f \in DOMAIN fanins :
    /\ fanins[f].n = 2
    /\ Successes(f) # {}
    /\ log[Min(SlotCalls(f, 0))].turn < log[Min(SlotCalls(f, 2))].turn
    /\ log[Min(SlotCalls(f, 2))].turn < log[Min(SlotCalls(f, 1))].turn

(***************************************************************************)
(* C3.  Calling a completion slot again is a no-op: the slot keeps the     *)
(* arguments of its first call, the countdown counts each slot once (it is *)
(* the number of slots not yet called), and a fan-in never reports success *)
(* twice, whether the repeated call comes before or after the report.      *)
(***************************************************************************)
FirstArgs(f, k) == log[Min(SlotCalls(f, k))].v
Fired(f) == {k \in 0..fanins[f].n : SlotCalls(f, k) # {}}
C3_LaterCallsAreNoOps ==
  \A f \in DOMAIN fanins :
    /\ \A k \in Fired(f) :
         /\ fanins[f].results[k + 1] = FirstArgs(f, k)
         /\ ~fanins[f].waitingFlags[k + 1]
    /\ fanins[f].waitingCount = fanins[f].n + 1 - Cardinality(Fired(f))
    /\ Cardinality(Successes(f)) <= 1

\* a slot was called again both before and after its fan-in reported success
C3_Witness ==
  \E f \in DOMAIN fanins : \E k \in 1..fanins[f].n :
    \E i \in Successes(f) : \E j1 \in SlotCalls(f, k), j2 \in SlotCalls(f, k) :
      /\ Min(SlotCalls(f, k)) < j1
      /\ j1 < i
      /\ i < j2

(***************************************************************************)
(* C4.  The success payload of a yielded function: the empty sequence if   *)
(* it declares no callback; the arguments of the first call of its         *)
(* callback if it declares one; and if it declares N >= 2, a sequence of   *)
(* length N whose k-th element is the arguments of the first call of       *)
(* callback k.  The value the body returned is not part of it.             *)
(***************************************************************************)
CbOf(ev) == Cb(ev.tag, ev.id, ev.k)
\* the yielded value a callback was created for
RequestOf(cb) ==
  IF cb.kind = "element" THEN fanouts[cb.id].valueArray[cb.i]
  ELSE IF cb.kind = "once" THEN gens[1].prog[1].req
  ELSE gens[cb.id].prog[cb.i].req
FaninOf(cb) == CHOOSE f \in DOMAIN fanins : fanins[f].cb = cb
ExpectedPayload(cb) ==
  LET n == RequestOf(cb).n
      f == FaninOf(cb)
  IN IF n = 0 THEN Arr(<<>>)
     ELSE IF n = 1 THEN FirstArgs(f, 1)
     ELSE Arr(Tuple([k \in 1..n |-> FirstArgs(f, k)], n))
C4_PayloadShape ==
  \A i \in DOMAIN log :
    (/\ log[i].e = "callback"
     /\ IsSuccess(log[i])
     /\ RequestOf(CbOf(log[i])).t = "Function")
    => log[i].v = ExpectedPayload(CbOf(log[i]))

\* a two-callback function completed after calling its first callback twice
C4_Witness ==
  \E f \in DOMAIN fanins :
    /\ fanins[f].n = 2
    /\ Successes(f) # {}
    /\ Cardinality(SlotCalls(f, 1)) >= 2
    /\ \E i \in SlotCalls(f, 1) : log[i].v # FirstArgs(f, 1)

(***************************************************************************)
(* C5.  The routine is not resumed while the body of a function it yielded *)
(* is still running: every call of the suspension's callback, and every    *)
(* resume operation for it, comes after the body has returned or thrown,   *)
(* also when the body calls all its callbacks synchronously and goes on    *)
(* working after the last of them.                                         *)
(***************************************************************************)
RECURSIVE Owner(_)
\* the callback of the suspension a callback finally reports to
Owner(cb) == IF cb.kind = "element" THEN Owner(fanouts[cb.id].cb) ELSE cb
BodyEnd(f) ==
  {j \in DOMAIN log : log[j].e \in {"return", "raise"} /\ log[j].id = f}
C5_NoResumeInsideBody ==
  \A f \in DOMAIN fanins :
    LET own == Owner(fanins[f].cb)
    IN own.kind \in StepKinds =>
         \A i \in Resumptions(own.id, own.i) \cup Resumes(own.id, own.i) :
           \E j \in BodyEnd(f) : j < i

\* a directly yielded function called every one of its callbacks inside its
\* body, then started a timer, then returned, and the routine was resumed
C5_Witness ==
  \E f \in DOMAIN fanins :
    /\ fanins[f].cb.kind \in StepKinds
    /\ Resumes(fanins[f].cb.id, fanins[f].cb.i) # {}
    /\ BodyEnd(f) # {}
    /\ \A k \in 1..fanins[f].n : \E j \in SlotCalls(f, k) : j < Min(BodyEnd(f))
    /\ log[Min(BodyEnd(f)) - 1].e = "defer"
    /\ log[Min(BodyEnd(f))].e = "return"

(***************************************************************************)
(* C6.  If the body of a yielded function throws, handleFunction reports   *)
(* that failure at once, never calls slot 0, and never reports a success   *)
(* for that function, whatever callbacks were or will be called; and the   *)
(* routine that yielded the function sees the failure, and only the        *)
(* failure, at that yield: it is resumed by gen.throw with the thrown      *)
(* value.                                                                  *)
(***************************************************************************)
Raises(f) == {j \in DOMAIN log : log[j].e = "raise" /\ log[j].id = f}
C6_ReportsBodyFailure(f, j) ==
  /\ j + 1 \in Emits(f)
  /\ log[j + 1].err = log[j].err
  /\ SlotCalls(f, 0) = {}
  /\ Successes(f) = {}
C6_RoutineSeesFailure(f, j) ==
  fanins[f].cb.kind \in StepKinds =>
    \A i \in Resumes(fanins[f].cb.id, fanins[f].cb.i) :
      log[i].tag = "throw" /\ log[i].err = log[j].err
C6_BodyRaiseIsOnlyOutcome ==
  \A f \in DOMAIN fanins : \A j \in Raises(f) :
    C6_ReportsBodyFailure(f, j) /\ C6_RoutineSeesFailure(f, j)

\* what does hold: the report of handleFunction, for every thrown value, and
\* the routine's view when the thrown value is truthy
C6_HoldsForTruthy ==
  \A f \in DOMAIN fanins : \A j \in Raises(f) :
    /\ C6_ReportsBodyFailure(f, j)
    /\ Truthy(log[j].err) => C6_RoutineSeesFailure(f, j)

(***************************************************************************)
(* C7.  Whatever value a yielded function throws or a yielded promise      *)
(* rejects with, truthy or falsy, the routine is resumed by gen.throw with *)
(* exactly that value: each failure handed to the callback of a suspension *)
(* is followed at once by a throwing resume carrying the same value.       *)
(***************************************************************************)
C7_FailureIsRaised(i) ==
  /\ i + 1 \in DOMAIN log
  /\ log[i + 1].e = "resume"
  /\ log[i + 1].tag = "throw"
  /\ log[i + 1].err = log[i].err
FailuresDelivered ==
  {i \in DOMAIN log : /\ log[i].e = "callback"
                      /\ log[i].tag \in StepKinds
                      /\ ~IsSuccess(log[i])}
C7_RaisedValueUnmodified == \A i \in FailuresDelivered : C7_FailureIsRaised(i)

\* what does hold: a truthy value is raised in the routine unmodified
C7_HoldsForTruthy ==
  \A i \in FailuresDelivered : Truthy(log[i].err) => C7_FailureIsRaised(i)

(***************************************************************************)
(* C8.  When all elements of a non-empty array succeed, the array's result *)
(* has the array's length and holds at position k what element k reported, *)
(* in whatever order the elements completed.                               *)
(***************************************************************************)
FanoutEmits(o) ==
  {i \in DOMAIN log : /\ log[i].e = "emit"
                      /\ log[i].tag = "handleArray"
                      /\ log[i].id = o}
ElementReports(o, k) ==
  {i \in DOMAIN log : /\ log[i].e = "callback"
                      /\ log[i].tag = "element"
                      /\ log[i].id = o
                      /\ log[i].k = k}
Positions(o) == 1..Len(fanouts[o].valueArray)
AllReports(o) == UNION {ElementReports(o, k) : k \in Positions(o)}
C8_ResultsInInputOrder ==
  \A o \in DOMAIN fanouts : \A i \in FanoutEmits(o) :
    (IsSuccess(log[i]) /\ \A j \in AllReports(o) : IsSuccess(log[j]))
    => /\ log[i].v.t = "Array"
       /\ Len(log[i].v.a) = Len(fanouts[o].valueArray)
       /\ \A k \in Positions(o) :
            \E j \in ElementReports(o, k) : j < i /\ log[i].v.a[k] = log[j].v

\* a two-element array succeeded, its second element completing first and
\* with another result than the first
C8_Witness ==
  \E o \in DOMAIN fanouts : \E i \in FanoutEmits(o) :
    /\ IsSuccess(log[i])
    /\ Len(fanouts[o].valueArray) = 2
    /\ \A j \in AllReports(o) : IsSuccess(log[j])
    /\ Min(ElementReports(o, 2)) < Min(ElementReports(o, 1))
    /\ log[i].v.a[1] # log[i].v.a[2]

(***************************************************************************)
(* C9.  If element k of an array throws synchronously while it is being    *)
(* started (its function throws, or it is not a valid yield), no element   *)
(* after k is ever visited.                                                *)
(***************************************************************************)
Visits(o, k) ==
  {i \in DOMAIN log : log[i].e = "visit" /\ log[i].id = o /\ log[i].k = k}
\* element k reported a failure in the turn in which it was visited
FailedSynchronously(o, k) ==
  \E j \in ElementReports(o, k) : \E i \in Visits(o, k) :
    ~IsSuccess(log[j]) /\ log[j].turn = log[i].turn
FailedSynchronouslyTruthy(o, k) ==
  \E j \in ElementReports(o, k) : \E i \in Visits(o, k) :
    ~IsSuccess(log[j]) /\ log[j].turn = log[i].turn /\ Truthy(log[j].err)
C9_LaterElementsNotVisited ==
  \A o \in DOMAIN fanouts : \A k \in Positions(o) :
    FailedSynchronously(o, k) =>
      \A k2 \in Positions(o) : k2 > k => Visits(o, k2) = {}

\* what does hold: after a truthy synchronous failure nothing more is visited
C9_HoldsForTruthy ==
  \A o \in DOMAIN fanouts : \A k \in Positions(o) :
    FailedSynchronouslyTruthy(o, k) =>
      \A k2 \in Positions(o) : k2 > k => Visits(o, k2) = {}

(***************************************************************************)
(* C10.  The first failure of an element of an array, synchronous or not,  *)
(* is reported at once as the array's failure; after it the array reports  *)
(* nothing more: no success and no second failure.                         *)
(***************************************************************************)
ElementFailures(o) == {j \in AllReports(o) : ~IsSuccess(log[j])}
C10_FirstFailureWins(o, failures) ==
  failures # {} =>
    /\ Min(failures) + 1 \in FanoutEmits(o)
    /\ log[Min(failures) + 1].err = log[Min(failures)].err
    /\ \A i \in FanoutEmits(o) : i = Min(failures) + 1
C10_FirstFailureIsTheOutcome ==
  \A o \in DOMAIN fanouts : C10_FirstFailureWins(o, ElementFailures(o))

\* what does hold: the first truthy failure is the array's only report
C10_HoldsForTruthy ==
  \A o \in DOMAIN fanouts :
    C10_FirstFailureWins(o, {j \in ElementFailures(o) : Truthy(log[j].err)})

(***************************************************************************)
(* C11.  In one array at most one element throws synchronously, and the    *)
(* exception an element throws synchronously is never ignored: it is at    *)
(* once reported as the failure of the array.                              *)
(***************************************************************************)
\* the failures elements of array o reported in the turn they were visited
SyncFailures(o) ==
  {j \in ElementFailures(o) :
     \E i \in Visits(o, log[j].k) : log[i].turn = log[j].turn}
C11_Delivered(o, j) ==
  /\ j + 1 \in FanoutEmits(o)
  /\ log[j + 1].err = log[j].err
C11_OneSyncExceptionDelivered ==
  \A o \in DOMAIN fanouts :
    /\ Cardinality(SyncFailures(o)) <= 1
    /\ \A j \in SyncFailures(o) : C11_Delivered(o, j)

\* what does hold: at most one truthy synchronous exception, and it is the
\* array's failure
C11_HoldsForTruthy ==
  \A o \in DOMAIN fanouts :
    LET truthy == {j \in SyncFailures(o) : Truthy(log[j].err)}
    IN /\ Cardinality(truthy) <= 1
       /\ \A j \in truthy : C11_Delivered(o, j)

(***************************************************************************)
(* C12.  A yielded undefined or empty array is always answered by a        *)
(* success with the empty sequence, and never in the turn in which it was  *)
(* yielded: the callback runs, and the routine is resumed by gen.next([]), *)
(* in a strictly later turn; until then its timer is pending.              *)
(***************************************************************************)
IsNone(req) ==
  req.t = "Undefined" \/ (req.t = "Array" /\ Len(req.elems) = 0)
\* the turn in which getNextResult was called with callback cb
StartTurn(cb) ==
  IF cb.kind = "element"
  THEN log[Min(Visits(cb.id, cb.i))].turn
  ELSE IF cb.kind = "once" THEN 1
  ELSE log[Min({i \in Resumes(cb.id, cb.i - 1) : log[i].e = "resume"})].turn
C12_Answer(i) ==
  /\ IsSuccess(log[i])
  /\ log[i].v = Arr(<<>>)
  /\ log[i].turn > StartTurn(CbOf(log[i]))
  /\ log[i].tag \in StepKinds =>
       /\ log[i + 1].e = "resume"
       /\ log[i + 1].tag = "next"
       /\ log[i + 1].v = Arr(<<>>)
C12_Pending(r) ==
  LET g == gens[r]
      cbs == {Cb(kind, r, g.pc) : kind \in StepKinds}
  IN (g.status = "suspended" /\ IsNone(g.prog[g.pc].req)) =>
       Cardinality({i \in DOMAIN timers : timers[i].cb \in cbs})
         + Cardinality(Resumptions(r, g.pc)) = 1
C12_NoneSucceedsLater ==
  /\ \A i \in DOMAIN log :
       (log[i].e = "callback" /\ IsNone(RequestOf(CbOf(log[i]))))
       => C12_Answer(i)
  /\ \A r \in DOMAIN gens : C12_Pending(r)

\* a routine yielded an empty array and then undefined, and was resumed
\* after each
C12_Witness ==
  /\ Len(gens[1].prog) = 2
  /\ gens[1].prog[1].req = ReqArray(<<>>)
  /\ gens[1].prog[2].req = ReqUndefined
  /\ gens[1].status = "done"
  /\ \E i \in Resumes(1, 1), j \in Resumes(1, 2) :
       log[i].tag = "next" /\ log[j].tag = "next" /\ log[j].turn = 3

(***************************************************************************)
(* C13.  When a yielded promise rejects with E, the routine has E raised   *)
(* at that yield (gen.throw(E)), in a turn strictly later than the turn in *)
(* which the promise's rejection handler ran.                              *)
(***************************************************************************)
\* the runs of the then-handlers for callback cb
Settles(cb) ==
  {j \in DOMAIN log : log[j].e = "settle" /\ CbOf(log[j]) = cb}
SettledEarlier(i) ==
  \E j \in Settles(CbOf(log[i])) : j < i /\ log[j].turn < log[i].turn
\* the callbacks called for rejected promises that routines yielded
RejectionsDelivered ==
  {i \in DOMAIN log : /\ log[i].e = "callback"
                      /\ log[i].tag \in StepKinds
                      /\ RequestOf(CbOf(log[i])).t = "Promise"
                      /\ RequestOf(CbOf(log[i])).s = "reject"}
C13_Raised(i) ==
  /\ SettledEarlier(i)
  /\ log[i].err = RequestOf(CbOf(log[i])).v
  /\ log[i + 1].e = "resume"
  /\ log[i + 1].tag = "throw"
  /\ log[i + 1].err = RequestOf(CbOf(log[i])).v
C13_RejectionRaisedLater == \A i \in RejectionsDelivered : C13_Raised(i)

\* what does hold: the callback always runs in a later turn with E, and a
\* truthy E is raised in the routine
C13_HoldsForTruthy ==
  \A i \in RejectionsDelivered :
    /\ SettledEarlier(i)
    /\ log[i].err = RequestOf(CbOf(log[i])).v
    /\ Truthy(log[i].err) => C13_Raised(i)

(***************************************************************************)
(* C14.  When a yielded promise resolves with v, the routine is resumed    *)
(* exactly once, by gen.next(v) with v itself and not an array holding v,  *)
(* in a turn strictly later than the turn in which the promise's           *)
(* resolution handler ran.                                                 *)
(***************************************************************************)
ResolutionsSettled ==
  {j \in DOMAIN log : /\ log[j].e = "settle"
                      /\ log[j].tag \in StepKinds
                      /\ log[j].err = Null}
C14_Resumed(i) ==
  /\ SettledEarlier(i)
  /\ IsSuccess(log[i])
  /\ log[i].v = RequestOf(CbOf(log[i])).v
  /\ log[i + 1].e = "resume"
  /\ log[i + 1].tag = "next"
  /\ log[i + 1].v = RequestOf(CbOf(log[i])).v
C14_ResolvedValueResumesLater ==
  \A j \in ResolutionsSettled :
    LET cb == CbOf(log[j])
    IN /\ RequestOf(cb).s = "resolve"
       /\ \A i \in Resumptions(cb.id, cb.i) : C14_Resumed(i)
       /\ Cardinality({t \in DOMAIN timers : timers[t].cb = cb})
            + Cardinality(Resumptions(cb.id, cb.i)) = 1
       /\ Cardinality(Resumes(cb.id, cb.i)) <= 1

\* a routine that yielded a promise resolving with a string was resumed with
\* that string
C14_Witness ==
  \E j \in ResolutionsSettled : \E i \in Resumes(log[j].id, log[j].k) :
    /\ log[i].tag = "next"
    /\ log[i].v = Str("success")
    /\ log[i].turn > log[j].turn

(***************************************************************************)
(* C15.  A yielded value that is not undefined, a function, an array or a  *)
(* promise fails in the turn in which it was yielded, with a TypeError     *)
(* whose message ends in the value's class name, a colon and the value's   *)
(* printable form ("Number: 180"); the error is raised at the yield, where *)
(* a try/catch around the yield catches it, and the routine is never left  *)
(* waiting at such a yield.                                                *)
(***************************************************************************)
IsMalformed(req) == req.t \notin {"Undefined", "Array", "Function", "Promise"}
MessageFor(req) ==
  "You may only yield a function, promise, undefined or an array of these to flatback.  Recieved "
    \o req.t \o ": " \o req.s
C15_Answer(i) ==
  LET cb == CbOf(log[i])
  IN /\ log[i].turn = StartTurn(cb)
     /\ log[i].err = TypeErr(MessageFor(RequestOf(cb)))
     /\ cb.kind \in StepKinds =>
          /\ log[i + 1].e = "resume"
          /\ log[i + 1].tag = "throw"
          /\ log[i + 1].err = log[i].err
          /\ gens[cb.id].prog[cb.i].catch =>
               ~(gens[cb.id].status = "failed" /\ gens[cb.id].pc = cb.i)
C15_MalformedFailsAtOnce ==
  /\ \A i \in DOMAIN log :
       (log[i].e = "callback" /\ IsMalformed(RequestOf(CbOf(log[i]))))
       => C15_Answer(i)
  /\ \A r \in DOMAIN gens :
       gens[r].status = "suspended" => ~IsMalformed(gens[r].prog[gens[r].pc].req)

\* a routine yielded the number 180 inside a try/catch, had the TypeError
\* raised there in the same turn, and ran on to its end
C15_Witness ==
  /\ gens[1].prog[1].req = ReqOther("Number", "180")
  /\ gens[1].prog[1].catch
  /\ gens[1].status = "done"
  /\ \E i \in Resumes(1, 1) :
       /\ log[i].tag = "throw"
       /\ log[i].err.t = "TypeError"
       /\ log[i].turn = 1

(***************************************************************************)
(* C16.  once(value, resolvedCallback, rejectedCallback) with both         *)
(* handlers given calls at most one of them, and at most once, whatever    *)
(* the work started by value does and in whatever order.                   *)
(***************************************************************************)
HandlerCalls ==
  {i \in DOMAIN log : log[i].e \in {"resolvedCallback", "rejectedCallback"}}
C16_AtMostOneHandlerCall ==
  (adapter = "once" /\ gens[1].prog[1].catch) => Cardinality(HandlerCalls) <= 1

\* once was given both handlers and a function that called its callbacks
\* and then threw: the rejected handler was called and a callback of the
\* function fired again later
C16_Witness ==
  /\ adapter = "once"
  /\ gens[1].prog[1].catch
  /\ \E i \in HandlerCalls : \E j \in DOMAIN log :
       /\ log[i].e = "rejectedCallback"
       /\ i < j
       /\ log[j].e = "slot"
       /\ log[j].turn > log[i].turn

(***************************************************************************)
(* C17.  Whenever the value given to once evaluates successfully with      *)
(* result r (a function, an array, undefined, or a promise that resolves   *)
(* with whatever value), once calls resolvedCallback, exactly once, with   *)
(* what the yield would have returned, and throws nothing instead.         *)
(***************************************************************************)
OnceSuccesses ==
  {i \in DOMAIN log : /\ log[i].e = "callback"
                      /\ log[i].tag = "once"
                      /\ IsSuccess(log[i])}
C17_Handled(i) ==
  /\ i + 1 \in DOMAIN log
  /\ log[i + 1].e = "resolvedCallback"
  /\ log[i + 1].v = argumentList(log[i].v)
  /\ Cardinality({j \in HandlerCalls : log[j].e = "resolvedCallback"}) = 1
C17_SuccessHandlerGetsResult == \A i \in OnceSuccesses : C17_Handled(i)

\* what does hold: a result that is an array is handed to resolvedCallback
C17_HoldsForArrays ==
  \A i \in OnceSuccesses : log[i].v.t = "Array" => C17_Handled(i)

(***************************************************************************)
(* C18.  When once is called without rejectedCallback and the value fails, *)
(* the failure is thrown out of the turn that delivered it (the call of    *)
(* once for a synchronous failure, the timer's turn for a rejected         *)
(* promise) and resolvedCallback is never called.                          *)
(***************************************************************************)
OnceFailuresUnhandled ==
  {i \in DOMAIN log : /\ log[i].e = "callback"
                      /\ log[i].tag = "once"
                      /\ log[i].id = 0
                      /\ ~IsSuccess(log[i])}
C18_Thrown(i) ==
  /\ \E u \in DOMAIN uncaught : uncaught[u] = log[i].err
  /\ \A j \in DOMAIN log : j > i => log[j].turn > log[i].turn
  /\ HandlerCalls = {}
C18_UnhandledFailureIsThrown == \A i \in OnceFailuresUnhandled : C18_Thrown(i)

\* what does hold: a truthy failure is thrown and no handler is called
C18_HoldsForTruthy ==
  \A i \in OnceFailuresUnhandled : Truthy(log[i].err) => C18_Thrown(i)

(***************************************************************************)
(* C19.  The promise returned by a function made by flatback.async is      *)
(* settled at most once, and exactly when the routine ends: resolved with  *)
(* the routine's return value when it returns, rejected with the exception *)
(* when an exception leaves the routine; while the routine is not ended    *)
(* the promise is pending, and after the settlement the routine is never   *)
(* resumed again.                                                          *)
(***************************************************************************)
Settlements ==
  {i \in DOMAIN log : log[i].e \in {"resolve", "reject"} /\ log[i].id = 1}
\* the resume operations on the routine the promise belongs to
AllResumes ==
  {i \in DOMAIN log : /\ log[i].e \in {"resume", "resumeFinished"}
                      /\ log[i].id = 1}
C19_AtTerminalTransition(i) ==
  /\ i - 1 \in AllResumes
  /\ log[i - 1].e = "resume"
  /\ \A j \in AllResumes : j < i
  /\ log[i].e = "reject" =>
       /\ log[i - 1].tag = "throw"
       /\ settled = [state |-> "rejected", v |-> log[i - 1].err]
       /\ gens[1].status = "failed"
  /\ log[i].e = "resolve" =>
       /\ settled = [state |-> "resolved", v |-> FinalValue]
       /\ gens[1].status = "done"
C19_SettledOnceAtTheEnd ==
  /\ Cardinality(Settlements) <= 1
  /\ \A i \in Settlements : C19_AtTerminalTransition(i)
  /\ (Settlements = {}) = (settled.state = "pending")
  /\ adapter = "async" =>
       /\ Live(gens[1]) = (settled.state = "pending")
       /\ (gens[1].status = "done") = (settled.state = "resolved")
       /\ (gens[1].status = "failed") = (settled.state = "rejected")

\* the promise was rejected when an element of a yielded array threw, and a
\* callback of another element fired in a later turn
C19_Witness ==
  /\ adapter = "async"
  /\ settled.state = "rejected"
  /\ \E i \in Settlements : \E j \in DOMAIN log :
       /\ i < j
       /\ log[j].e = "slot"
       /\ log[j].turn > log[i].turn

(***************************************************************************)
(* C20.  If constructing the routine throws inside a call of a function    *)
(* made by flatback.async, the call still returns a promise, rejected with *)
(* what was thrown, and nothing is thrown to the caller.                   *)
(***************************************************************************)
C20_ConstructionFailureRejects ==
  (adapter = "async" /\ gens[1].ctor # Null) =>
    /\ settled = [state |-> "rejected", v |-> gens[1].ctor]
    /\ uncaught = <<>>

(***************************************************************************)
(* C21.  A routine run by step (flatback.func, flatback.exec) that does    *)
(* not catch a failure lets it out of the step that resumed it: the        *)
(* exception reaches the code that caused the resume.  That is the host    *)
(* (the adapter call or a timer's turn), or the body of a yielded function *)
(* inside which the resume happened, which then raises it and has it       *)
(* reported as its failure.  In particular, when the routine of a yielded  *)
(* flatback.func function fails in the turn of the yield, the routine that *)
(* yielded it has that failure raised at its yield.                        *)
(***************************************************************************)
\* the yielded function whose call runs the inner routine was made by
\* flatback.async
InnerByAsync ==
  /\ Len(gens) >= Inner
  /\ gens[1].prog[1].req.body # <<>>
  /\ gens[1].prog[1].req.body[1].op = "execAsync"
RunByStep(r) == IF r = Inner THEN ~InnerByAsync ELSE adapter = "exec"
\* the points where a routine run by step ends with an exception: its own
\* throw, or a gen.throw at a yield outside try/catch
UncaughtFailures ==
  {i \in DOMAIN log :
     /\ RunByStep(log[i].id)
     /\ \/ log[i].e = "throws"
        \/ /\ log[i].e = "resume"
           /\ log[i].tag = "throw"
           /\ ~gens[log[i].id].prog[log[i].k].catch}
FailureAt(i) == log[i].err
ReachesHost(i) ==
  /\ \A j \in DOMAIN log : j > i => log[j].turn > log[i].turn
  /\ \E u \in DOMAIN uncaught : uncaught[u] = FailureAt(i)
ReachesBody(i) ==
  /\ i + 2 \in DOMAIN log
  /\ log[i + 1].e = "raise" /\ log[i + 1].err = FailureAt(i)
  /\ log[i + 2].e = "emit" /\ log[i + 2].err = FailureAt(i)
\* the failure of the inner routine is raised at the yield of the outer one
RaisedInOuter(i) ==
  \E j \in Resumes(1, 1) :
    /\ j > i
    /\ log[j].turn = log[i].turn
    /\ log[j].tag = "throw"
    /\ log[j].err = FailureAt(i)
InTurnOfYield(i) ==
  /\ log[i].id = Inner
  /\ adapter \in {"exec", "async"}
  /\ log[i].turn = 1
C21_UncaughtFailureReraised ==
  \A i \in UncaughtFailures :
    /\ ReachesHost(i) \/ ReachesBody(i)
    /\ InTurnOfYield(i) => RaisedInOuter(i)

\* what does hold: the exception always leaves the step, and a truthy one
\* is raised in the outer routine
C21_HoldsForTruthy ==
  \A i \in UncaughtFailures :
    /\ ReachesHost(i) \/ ReachesBody(i)
    /\ (InTurnOfYield(i) /\ Truthy(FailureAt(i))) => RaisedInOuter(i)

(***************************************************************************)
(* C22.  The function that flatback.func or flatback.async returns for a   *)
(* generator function has the length of that generator function, so when   *)
(* it is yielded it gets one callback per parameter of the generator       *)
(* function: the routine constructed by the call receives a fan-in with    *)
(* exactly that many callback slots (none, and no fan-in, for length 0).   *)
(***************************************************************************)
GenFunctions == {GenFunction(n, Inner) : n \in 0..MaxArity}
\* the inner routine has been constructed by a call of the yielded function
InnerStarted == Len(gens) >= Inner /\ gens[Inner].status # "constructed"
\* the fan-in was made for the yielded function: the first yield of routine
\* 1, or the function given to flatback.once
ForFirstYield(f) ==
  fanins[f].cb \in {Cb("step", 1, 1), Cb("stepAsync", 1, 1),
                    Cb("once", 0, 0), Cb("once", 1, 0)}
C22_LengthOfGenFunction ==
  /\ \A g \in GenFunctions : func(g).n = g.length /\ async(g).n = g.length
  /\ Len(gens) >= Inner => gens[1].prog[1].req.n = gens[Inner].length
  /\ InnerStarted =>
       IF gens[Inner].length = 0
       THEN /\ gens[Inner].args = 0
            /\ \A f \in DOMAIN fanins : ~ForFirstYield(f)
       ELSE /\ gens[Inner].args \in DOMAIN fanins
            /\ ForFirstYield(gens[Inner].args)
            /\ fanins[gens[Inner].args].n = gens[Inner].length
            /\ Len(fanins[gens[Inner].args].waitingFlags) =
                 gens[Inner].length + 1

\* a generator function of two parameters was yielded through flatback.async:
\* its routine was run by stepAsync with a fan-in of two callbacks as its
\* arguments, called both of them, and its promise was resolved
C22_Witness ==
  /\ InnerStarted
  /\ InnerByAsync
  /\ gens[Inner].length = MaxArity
  /\ gens[Inner].args \in DOMAIN fanins
  /\ fanins[gens[Inner].args].n = MaxArity
  /\ \A k \in 1..MaxArity : SlotCalls(gens[Inner].args, k) # {}
  /\ gens[Inner].promise = [state |-> "resolved", v |-> FinalValue]
  /\ \E i \in DOMAIN log :
       log[i].e = "callback" /\ log[i].tag = "stepAsync" /\ log[i].id = Inner

(***************************************************************************)
(* C23.  A yielded function that declares no callback is called once, at   *)
(* the yield, and the routine is resumed in the same turn, directly after  *)
(* the function returns, with the empty array.  If the function throws,    *)
(* the routine is resumed with what it threw raised at the yield, and      *)
(* gets no success.                                                        *)
(***************************************************************************)
ZeroCallbackYields ==
  {p \in UNION {{<<r, s>> : s \in 1..Len(gens[r].prog)} : r \in DOMAIN gens} :
     /\ gens[p[1]].prog[p[2]].req.t = "Function"
     /\ gens[p[1]].prog[p[2]].req.n = 0}
\* the body neither starts a routine nor calls a callback of one
PlainBody(req) == \A b \in DOMAIN req.body : req.body[b].op = "throw"
\* the resume at log index j follows the call of the function yielded at s
AfterTheCall(r, s, j) ==
  /\ j > 3
  /\ log[j - 1].e = "callback"
  /\ log[j - 2].e = "emit" /\ log[j - 2].tag = "getNextResult"
  /\ log[j - 3].e \in {"return", "raise"} /\ log[j - 3].id = 0
  /\ \E p \in Resumes(r, s - 1) :
       /\ p < j
       /\ log[p].turn = log[j].turn
       /\ log[p + 1].e = "enter" /\ log[p + 1].id = 0
       /\ PlainBody(gens[r].prog[s].req) => j = p + 5
ResumedAsBodyEnded(j, truthyOnly) ==
  /\ log[j - 3].e = "return" =>
       log[j].tag = "next" /\ log[j].v = Arr(<<>>)
  /\ (log[j - 3].e = "raise" /\ (truthyOnly => Truthy(log[j - 3].err))) =>
       log[j].tag = "throw" /\ log[j].err = log[j - 3].err
NotLeftSuspended(r, s) ==
  ~(gens[r].status = "suspended" /\ gens[r].pc = s)
C23_NoCallbacksResumesAtOnce ==
  \A p \in ZeroCallbackYields :
    /\ NotLeftSuspended(p[1], p[2])
    /\ Cardinality(Resumes(p[1], p[2])) <= 1
    /\ \A j \in Resumes(p[1], p[2]) :
         AfterTheCall(p[1], p[2], j) /\ ResumedAsBodyEnded(j, FALSE)

\* what does hold: the same, with the failure raised only if it is truthy
C23_HoldsForTruthy ==
  \A p \in ZeroCallbackYields :
    /\ NotLeftSuspended(p[1], p[2])
    /\ Cardinality(Resumes(p[1], p[2])) <= 1
    /\ \A j \in Resumes(p[1], p[2]) :
         AfterTheCall(p[1], p[2], j) /\ ResumedAsBodyEnded(j, TRUE)

(***************************************************************************)
(* C24.  A yielded function is complete in the very call of its last       *)
(* finishedCheck, be it the one handleFunction makes when the body has     *)
(* returned (index 0) or a callback's (index >= 1), also when that         *)
(* callback is called on a later turn: the success is reported inside that *)
(* call, and a routine waiting for it is resumed inside that call, in the  *)
(* same turn, with no timer in between.                                    *)
(***************************************************************************)
\* the success reported at log index i came out of the slot call before it
\* and went straight to the callback and the routine behind it
CompletedInsideSlotCall(f, i) ==
  /\ i > 1
  /\ log[i - 1].e = "slot" /\ log[i - 1].id = f
  /\ log[i - 1].turn = log[i].turn
  /\ i + 1 \in DOMAIN log
  /\ log[i + 1].e = "callback"
  /\ CbOf(log[i + 1]) = fanins[f].cb
  /\ log[i + 1].turn = log[i].turn
  /\ fanins[f].cb.kind \in StepKinds =>
       /\ i + 2 \in DOMAIN log
       /\ log[i + 2].e \in {"resume", "resumeFinished"}
       /\ log[i + 2].id = fanins[f].cb.id
       /\ log[i + 2].k = fanins[f].cb.i
       /\ log[i + 2].tag = "next"
       /\ log[i + 2].turn = log[i].turn
C24_CompletionInsideLastSlotCall ==
  \A f \in DOMAIN fanins :
    /\ fanins[f].waitingCount = 0 => Successes(f) # {}
    /\ \A i \in Successes(f) : CompletedInsideSlotCall(f, i)

\* a callback called by a timer, on a later turn than the body ran in, was
\* the last one missing, and the routine was resumed in that turn
C24_Witness ==
  \E f \in DOMAIN fanins :
    /\ fanins[f].cb.kind \in StepKinds
    /\ \E i \in Successes(f) :
         /\ log[i - 1].k >= 1
         /\ \E j \in BodyEnd(f) : log[j].e = "return" /\ log[j].turn < log[i].turn
         /\ log[i + 2].e = "resume"
         /\ log[i + 2].turn = log[i - 1].turn

(***************************************************************************)
(* C25.  A started routine ends.  Under LiveSpec (the event loop runs      *)
(* every pending timer and every promise reaction) a suspended routine     *)
(* eventually is finished, by returning or by an uncaught exception,       *)
(* unless a yielded function whose body returned never calls one of its    *)
(* callbacks: nothing is pending any more and that callback is still       *)
(* unfired.  Nothing but a resume changes a suspended routine, and a       *)
(* finished one stays as it is: there is no cancel.                        *)
(***************************************************************************)
Suspended(r) == r \in DOMAIN gens /\ gens[r].status = "suspended"
Finished(r) == r \in DOMAIN gens /\ gens[r].status \in {"done", "failed"}
\* the body of fan-in f returned, callback k was not called and no timer
\* or promise reaction is left that could call it
SlotNeverFires ==
  /\ timers = <<>>
  /\ promises = <<>>
  /\ \E f \in DOMAIN fanins :
       /\ ~fanins[f].waitingFlags[1]
       /\ \E k \in 1..fanins[f].n : fanins[f].waitingFlags[k + 1]
NoCancel ==
  \A r \in DOMAIN gens :
    /\ (Suspended(r) /\ gens'[r] # gens[r]) =>
         \E i \in (Len(log) + 1)..Len(log') :
           log'[i].e = "resume" /\ log'[i].id = r /\ log'[i].k = gens[r].pc
    /\ Finished(r) => gens'[r] = gens[r]
C25_RoutineEnds ==
  /\ \A r \in 1..Inner : Suspended(r) ~> (Finished(r) \/ SlotNeverFires)
  /\ [][NoCancel]_vars

\* a routine that was resumed in three different turns has finished
C25_Witness ==
  /\ Finished(1)
  /\ Cardinality({log[i].turn : i \in Resumes(1, 0) \cup Resumes(1, 1)
                                       \cup Resumes(1, 2)}) >= 3
  /\ timers = <<>>

(***************************************************************************)
(* C26.  In the result of an array every element has the result of its own *)
(* kind: a function of one callback the arguments that callback got, a     *)
(* function of several callbacks the array of their argument arrays, a     *)
(* promise the value it resolved with, undefined, [] and a function of no  *)
(* callback the empty array, and an array that is an element the array of  *)
(* the results of its own elements, shaped by the same rules.              *)
(***************************************************************************)
RECURSIVE Shape(_, _)
\* the fan-out made for the array that is element k of fan-out o
NestedFanout(o, k) ==
  CHOOSE o2 \in DOMAIN fanouts : fanouts[o2].cb = Cb("element", o, k)
Shape(o, k) ==
  LET elem == fanouts[o].valueArray[k]
  IN CASE IsNone(elem) -> Arr(<<>>)
       [] elem.t = "Function" -> ExpectedPayload(Cb("element", o, k))
       [] elem.t = "Promise" -> elem.v
       [] OTHER ->
            Arr(Tuple([k2 \in 1..Len(elem.elems) |-> Shape(NestedFanout(o, k), k2)],
                      Len(elem.elems)))
Succeeded(o, k) == \E j \in ElementReports(o, k) : IsSuccess(log[j])
C26_ElementsShapedByKind ==
  \A o \in DOMAIN fanouts : \A i \in FanoutEmits(o) :
    IsSuccess(log[i]) =>
      \A k \in Positions(o) :
        Succeeded(o, k) => log[i].v.a[k] = Shape(o, k)

\* an array succeeded whose first element is an array of a function and a
\* promise and whose second element is a function of two callbacks
C26_Witness ==
  \E o \in DOMAIN fanouts : \E i \in FanoutEmits(o) :
    /\ IsSuccess(log[i])
    /\ Len(fanouts[o].valueArray) = 2
    /\ fanouts[o].valueArray[1].t = "Array"
    /\ Len(fanouts[o].valueArray[1].elems) = 2
    /\ fanouts[o].valueArray[2].t = "Function"
    /\ fanouts[o].valueArray[2].n = 2
    /\ log[i].v.a[1].t = "Array"
    /\ Len(log[i].v.a[1].a) = 2
    /\ log[i].v.a[1].a[2] = Str("success")
    /\ Len(log[i].v.a[2].a) = 2

(***************************************************************************)
(* C27.  The flags, countdown and results of a fan-in belong to one call   *)
(* of handleFunction, the countdown, results and first error of a fan-out  *)
(* to one call of handleArray.  A turn changes those of a fan-in only      *)
(* where one of that fan-in's own finishedChecks was called in the turn,   *)
(* and those of a fan-out only where one of that fan-out's own elements    *)
(* reported in the turn; every other fan-in and fan-out, of the same or of *)
(* another routine, is left as it was.  The heap holds nothing else that   *)
(* a request writes.                                                       *)
(***************************************************************************)
\* the log entries of the turn being taken
ThisTurn == (Len(log) + 1)..Len(log')
SlotCalledNow(f, k) ==
  \E i \in ThisTurn : log'[i].e = "slot" /\ log'[i].id = f /\ log'[i].k = k
ReportedNow(o, k) ==
  \E i \in ThisTurn :
    log'[i].e = "callback" /\ log'[i].tag = "element"
      /\ log'[i].id = o /\ log'[i].k = k
FaninFrame(f) ==
  /\ f \in DOMAIN fanins'
  /\ fanins'[f].n = fanins[f].n /\ fanins'[f].cb = fanins[f].cb
  /\ \A k \in 0..fanins[f].n :
       (\/ fanins'[f].waitingFlags[k + 1] # fanins[f].waitingFlags[k + 1]
        \/ fanins'[f].results[k + 1] # fanins[f].results[k + 1])
       => SlotCalledNow(f, k)
  /\ fanins'[f].waitingCount # fanins[f].waitingCount =>
       \E k \in 0..fanins[f].n : SlotCalledNow(f, k)
FanoutFrame(o) ==
  /\ o \in DOMAIN fanouts'
  /\ fanouts'[o].valueArray = fanouts[o].valueArray
  /\ fanouts'[o].cb = fanouts[o].cb
  /\ \A k \in Positions(o) :
       fanouts'[o].results[k] # fanouts[o].results[k] => ReportedNow(o, k)
  /\ (\/ fanouts'[o].waitingCount # fanouts[o].waitingCount
      \/ fanouts'[o].firstErr # fanouts[o].firstErr)
     => \E k \in Positions(o) : ReportedNow(o, k)
RequestStateIsPrivate ==
  /\ \A f \in DOMAIN fanins : FaninFrame(f)
  /\ \A o \in DOMAIN fanouts : FanoutFrame(o)
C27_RequestStateIsPrivate == [][RequestStateIsPrivate]_vars

\* two fan-ins of one array: callbacks of both were called by timers, in
\* different turns, and the second fan-in still waits for a callback
C27_Witness ==
  \E f1, f2 \in DOMAIN fanins :
    /\ f1 # f2
    /\ fanins[f1].waitingCount = 0
    /\ fanins[f2].waitingCount > 0
    /\ \E i \in SlotCalls(f1, 1) : \E j \in SlotCalls(f2, 1) :
         /\ log[i].turn > 1 /\ log[j].turn > 1
         /\ log[i].turn > log[j].turn

(***************************************************************************)
(* C28.  yield undefined behaves as yield callback => setTimeout(() =>     *)
(* callback(), 0): whichever of the two a routine yields, it is resumed    *)
(* once, by gen.next with the empty array, in a later turn than the one it *)
(* yielded in, and it is resumed as soon as nothing is pending any more.   *)
(***************************************************************************)
\* what the routine can observe of its resumes at yield s
Observed(r, s) ==
  {<<log[j].tag, log[j].err, log[j].v>> : j \in Resumes(r, s)}
ResumedOnceLater(r, s) ==
  /\ Cardinality(Resumes(r, s)) <= 1
  /\ Observed(r, s) \subseteq {<<"next", Null, Arr(<<>>)>>}
  /\ \A j \in Resumes(r, s) :
       log[j].turn > StartTurn(Cb("step", r, s))
  /\ (gens[r].pc >= s /\ ~Pending) => Resumes(r, s) # {}
YieldsOf(req) ==
  {p \in UNION {{<<r, s>> : s \in 1..Len(gens[r].prog)} : r \in DOMAIN gens} :
     gens[p[1]].prog[p[2]].req = req}
C28_UndefinedIsDeferTask ==
  adapter \in {"exec", "async"} =>
    \A p \in YieldsOf(ReqUndefined) \cup YieldsOf(DeferTask) :
      ResumedOnceLater(p[1], p[2])

\* a routine yielded the function and then undefined, and saw the same
C28_Witness ==
  /\ adapter \in {"exec", "async"}
  /\ gens[1].prog[1].req = DeferTask
  /\ Len(gens[1].prog) = 2
  /\ gens[1].prog[2].req = ReqUndefined
  /\ Observed(1, 1) # {}
  /\ Observed(1, 1) = Observed(1, 2)
  /\ gens[1].status = "done"

(***************************************************************************)
(* C29.  handleArray hands the elements of an array to getNextResult in    *)
(* the order of the array, each once, all in the turn in which the array   *)
(* is handled, and, unless an element fails in that turn, every one of     *)
(* them: element k + 1 is started whether or not element k has completed.  *)
(***************************************************************************)
\* the turn in which handleArray was called for fan-out o
HandledIn(o) == log[Min(Visits(o, 1))].turn
InitiatedInOrder(o) ==
  /\ Visits(o, 1) # {}
  /\ \A k \in Positions(o) :
       /\ Cardinality(Visits(o, k)) <= 1
       /\ \A i \in Visits(o, k) :
            /\ log[i].turn = HandledIn(o)
            /\ k > 1 => \E j \in Visits(o, k - 1) : j < i
C29_ElementsStartedInOrder ==
  \A o \in DOMAIN fanouts :
    /\ InitiatedInOrder(o)
    /\ SyncFailures(o) = {} => \A k \in Positions(o) : Visits(o, k) # {}

\* the second element of an array was started in the turn of the first,
\* which completed only in a later turn
C29_Witness ==
  \E o \in DOMAIN fanouts :
    /\ Len(fanouts[o].valueArray) = 2
    /\ Visits(o, 2) # {}
    /\ ElementReports(o, 1) # {}
    /\ \A j \in ElementReports(o, 1) : log[j].turn > HandledIn(o)

(***************************************************************************)
(* C30.  Calling the function flatback.func returned constructs the        *)
(* generator with the arguments of that call (flatback.exec with none)     *)
(* and makes the first gen.next(undefined) inside the call: when the call  *)
(* returns the routine is suspended at its first yield or has ended.  For  *)
(* a yielded flatback.func function the arguments are the callbacks        *)
(* handleFunction made for it, and the first gen.next comes between the    *)
(* entry to the function body and its end.                                 *)
(***************************************************************************)
FirstResume(i, r) ==
  /\ log[i].e = "resume" /\ log[i].id = r /\ log[i].k = 0
  /\ log[i].tag = "next" /\ log[i].err = Null /\ log[i].v = Undefined
\* flatback.exec: no arguments, the first resume opens the call's turn
ExecStartsAtOnce ==
  (adapter = "exec" /\ gens[1].ctor = Null) =>
    /\ FirstResume(1, 1) /\ log[1].turn = 1
    /\ Resumes(1, 0) = {1}
    /\ gens[1].status # "constructed"
    /\ gens[1].args = 0
\* the function body that is the call of the yielded flatback.func function
CallOf(i) ==
  /\ log[i].e = "enter"
  /\ log[i].id = gens[Inner].args
  /\ log[i].id # 0 => ForFirstYield(log[i].id)
InnerStartsInsideCall ==
  (Len(gens) = Inner /\ adapter # "") =>
    /\ gens[Inner].status # "constructed"
    /\ gens[Inner].args = IF gens[Inner].length = 0 THEN 0
                          ELSE CHOOSE f \in DOMAIN fanins : ForFirstYield(f)
    /\ \E i \in Resumes(Inner, 0) :
         /\ Resumes(Inner, 0) = {i}
         /\ FirstResume(i, Inner)
         /\ CallOf(i - 1)
         /\ log[i].turn = 1
         /\ \E j \in DOMAIN log :
              /\ j > i
              /\ log[j].e \in {"return", "raise"}
              /\ log[j].id = log[i - 1].id
              /\ log[j].turn = 1
C30_CallStartsRoutine == ExecStartsAtOnce /\ InnerStartsInsideCall

\* a yielded flatback.func function of two parameters was called with the
\* two callbacks of its fan-in; its routine is suspended at its first yield
\* and the call has returned
C30_Witness ==
  /\ Len(gens) = Inner
  /\ adapter = "exec"
  /\ gens[Inner].length = MaxArity
  /\ gens[Inner].args \in DOMAIN fanins
  /\ gens[Inner].status = "suspended"
  /\ gens[Inner].pc = 1
  /\ \E j \in BodyEnd(gens[Inner].args) : log[j].e = "return"
  /\ gens[1].status = "suspended"

(***************************************************************************)
(* C31.  A routine that has finished, by returning or by a failure it did  *)
(* not catch, is never resumed again: no gen.next or gen.throw is made on  *)
(* a finished generator, and a finished routine has had exactly one resume *)
(* operation to start it and one for each yield it reached, although slots *)
(* of its earlier requests are still called and elements of its arrays     *)
(* still report after it has finished.                                     *)
(***************************************************************************)
ResumeOps(r) ==
  {i \in DOMAIN log : log[i].e \in {"resume", "resumeFinished"} /\ log[i].id = r}
C31_FinishedIsNeverResumed ==
  /\ \A i \in DOMAIN log : log[i].e # "resumeFinished"
  /\ \A r \in DOMAIN gens :
       Finished(r) => Cardinality(ResumeOps(r)) = gens[r].pc + 1

\* a routine failed at a yielded array, and in a later turn a slot of an
\* element of the array was called and the element reported to the array
C31_Witness ==
  \E r \in DOMAIN gens : \E j \in DOMAIN log, k \in DOMAIN log :
    /\ Finished(r)
    /\ \A i \in ResumeOps(r) : log[i].turn < log[j].turn
    /\ log[j].e = "slot"
    /\ Owner(fanins[log[j].id].cb) \in {Cb(kind, r, gens[r].pc) : kind \in StepKinds}
    /\ k > j
    /\ log[k].e = "callback"
    /\ log[k].tag = "element"
    /\ Owner(CbOf(log[k])) \in {Cb(kind, r, gens[r].pc) : kind \in StepKinds}

(***************************************************************************)
(* C32.  For a function that declares no callback, the shortcut of         *)
(* getNextResult (call it, then callback(null, []) or callback(err)) does  *)
(* what handleFunction does with its N + 1 slots for N = 0: whenever a     *)
(* routine is about to yield such a function, both leave the same heap and *)
(* the same history (up to the fan-in record that only handleFunction      *)
(* creates), and every call of such a function made so far was followed at *)
(* once, in the same turn, by exactly one report: the empty sequence if    *)
(* the body returned, what it threw otherwise.                             *)
(***************************************************************************)
\* fan-in f0 exists only in the run of handleFunction: its events count as
\* events of the shortcut, the fan-ins created after it move down by one
Ren(id, f0) == IF id = f0 THEN 0 ELSE IF id > f0 THEN id - 1 ELSE id
NormEv(ev, f0) ==
  IF ev.e \in {"enter", "return", "raise", "slot", "defer"}
  THEN [ev EXCEPT !.id = Ren(@, f0)]
  ELSE IF ev.e = "emit" /\ ev.tag = "handleFunction"
  THEN IF ev.id = f0 THEN [ev EXCEPT !.id = 0, !.tag = "getNextResult"]
       ELSE [ev EXCEPT !.id = Ren(@, f0)]
  ELSE ev
\* what a run left, without fan-in f0 (f0 beyond the fan-ins: nothing to
\* drop or to rename)
View(st, f0) ==
  LET kept == SelectSeq(st.log, LAMBDA ev : ~(ev.e = "slot" /\ ev.id = f0))
  IN [gens |-> Tuple([r \in DOMAIN st.gens |->
                        [st.gens[r] EXCEPT !.args = Ren(@, f0)]], Len(st.gens)),
      fanins |-> IF f0 \in DOMAIN st.fanins THEN Remove(st.fanins, f0)
                 ELSE st.fanins,
      fanouts |-> st.fanouts,
      timers |-> Tuple([t \in DOMAIN st.timers |->
                          [st.timers[t] EXCEPT !.f = Ren(@, f0)]], Len(st.timers)),
      promises |-> st.promises,
      settled |-> st.settled,
      exc |-> st.exc,
      turn |-> st.turn,
      log |-> Tuple([i \in DOMAIN kept |-> NormEv(kept[i], f0)], Len(kept))]
\* the routines about to yield a function without callbacks
NextIsZeroArity(r) ==
  /\ Live(gens[r])
  /\ gens[r].ctor = Null
  /\ gens[r].pc < Len(gens[r].prog)
  /\ gens[r].prog[gens[r].pc + 1].req.t = "Function"
  /\ gens[r].prog[gens[r].pc + 1].req.n = 0
\* the callbacks getNextResult may be given for that yield
CallbacksFor(r) ==
  IF r = Inner
  THEN {Cb(IF InnerByAsync THEN "stepAsync" ELSE "step", r, gens[r].pc + 1)}
  ELSE IF adapter = "async" THEN {Cb("stepAsync", r, gens[r].pc + 1)}
  ELSE IF adapter = "exec" THEN {Cb("step", r, gens[r].pc + 1)}
  ELSE {Cb("step", r, 1), Cb("stepAsync", r, 1)} \cup
       (IF Len(gens[r].prog) = 1 THEN {Cb("once", 0, 0), Cb("once", 1, 0)} ELSE {})
\* the heap when getNextResult is called: the routine has been resumed
AtYield(r, cb) ==
  IF cb.kind = "once" THEN Heap ELSE genNext(Heap, r, Arr(<<>>))
\* the run of the shortcut is taken as it is
Whole(st) == View(st, Len(st.fanins) + 1)
ShortcutIsGeneral(st0, value, cb) ==
  Whole(getNextResult(st0, value, cb))
    = View(handleFunction(st0, value, cb), Len(st0.fanins) + 1)
\* the calls of functions without callbacks made so far, and where each ended
ShortcutCalls == {i \in DOMAIN log : log[i].e = "enter" /\ log[i].id = 0}
Opened(i, j) == Cardinality({x \in i..j : log[x].e = "enter" /\ log[x].id = 0})
Closed(i, j) ==
  Cardinality({x \in i..j : log[x].e \in {"return", "raise"} /\ log[x].id = 0})
Ends(i) == {j \in DOMAIN log : j > i /\ Opened(i, j) = Closed(i, j)}
ReportedOnce(i) ==
  /\ Ends(i) # {}
  /\ LET j == Min(Ends(i))
     IN /\ j + 2 \in DOMAIN log
        /\ log[j + 1].e = "emit"
        /\ log[j + 1].tag = "getNextResult"
        /\ log[j + 1].turn = log[i].turn
        /\ log[j + 1].err = log[j].err
        /\ log[j + 1].v = (IF log[j].e = "return" THEN Arr(<<>>) ELSE Undefined)
        /\ log[j + 2].e = "callback"
C32_ShortcutIsFaninOfNone ==
  /\ \A r \in DOMAIN gens :
       NextIsZeroArity(r) =>
         \A cb \in CallbacksFor(r) :
           ShortcutIsGeneral(AtYield(r, cb), gens[r].prog[gens[r].pc + 1].req, cb)
  /\ \A i \in ShortcutCalls : ReportedOnce(i)

\* a function without callbacks called a callback of another request, the
\* routine that had yielded that request was resumed inside the call, and the
\* call then returned and was reported as a success
C32_Witness ==
  \E i \in ShortcutCalls : \E j \in Ends(i) : \E x \in i..j :
    /\ j = Min(Ends(i))
    /\ log[j].e = "return"
    /\ log[x].e = "resume" /\ log[x].id = 1
    /\ log[j + 1].e = "emit"
    /\ log[j + 1].v = Arr(<<>>)

(***************************************************************************)
(* C33.  What a yielded function reports on success depends only on the    *)
(* arguments each of its callbacks got when it was first called, not on    *)
(* the order or the turns in which the callbacks and the body's return     *)
(* came: any two handleFunction calls for functions of the same length     *)
(* whose slots were first called with the same arguments report the same   *)
(* result, however the calls of their slots were interleaved.              *)
(***************************************************************************)
AllFired(f) == Fired(f) = 0..fanins[f].n
SameFirstArgs(f, g) ==
  /\ fanins[f].n = fanins[g].n
  /\ AllFired(f) /\ AllFired(g)
  /\ \A k \in 0..fanins[f].n : FirstArgs(f, k) = FirstArgs(g, k)
\* the order in which the slots of fan-in f were first called
FirstBefore(f, k1, k2) == Min(SlotCalls(f, k1)) < Min(SlotCalls(f, k2))
C33_ResultIndependentOfOrder ==
  \A f \in DOMAIN fanins, g \in DOMAIN fanins :
    SameFirstArgs(f, g) =>
      \A i \in Successes(f), j \in Successes(g) : log[i].v = log[j].v

\* two functions of two callbacks completed with the same first arguments:
\* one called callback 1 in its body and callback 2 from a timer, the other
\* callback 2 in its body and callback 1 from a timer
C33_Witness ==
  \E f \in DOMAIN fanins, g \in DOMAIN fanins :
    /\ f # g
    /\ fanins[f].n = 2
    /\ SameFirstArgs(f, g)
    /\ Successes(f) # {} /\ Successes(g) # {}
    /\ FirstBefore(f, 1, 0) /\ FirstBefore(f, 0, 2)
    /\ FirstBefore(g, 2, 0) /\ FirstBefore(g, 0, 1)
    /\ FirstArgs(f, 1) # FirstArgs(f, 2)

(***************************************************************************)
(* C34.  The countdown of a handleFunction call (waitingCount) is at every *)
(* turn's end the number of its N + 1 slots whose waiting flag is still    *)
(* set, between 0 and N + 1; a turn lowers it by one for each slot called  *)
(* for the first time in that turn and by nothing for a slot called again; *)
(* once it is zero it stays zero, and it is zero exactly when the one      *)
(* success report of the call has been made.                               *)
(***************************************************************************)
Waiting(f) == {k \in 0..fanins[f].n : fanins[f].waitingFlags[k + 1]}
CountdownIsWaiting ==
  \A f \in DOMAIN fanins :
    /\ fanins[f].waitingCount = Cardinality(Waiting(f))
    /\ fanins[f].waitingCount \in 0..(fanins[f].n + 1)
    /\ Cardinality(Successes(f)) <= 1
    /\ (fanins[f].waitingCount = 0) = (Successes(f) # {})
\* the slots of fan-in f called in this turn and never before it
FirstFiredNow(f) ==
  {k \in 0..fanins'[f].n :
     /\ SlotCalledNow(f, k)
     /\ \A i \in DOMAIN log : ~(log[i].e = "slot" /\ log[i].id = f /\ log[i].k = k)}
CountBefore(f) ==
  IF f \in DOMAIN fanins THEN fanins[f].waitingCount ELSE fanins'[f].n + 1
CountdownStep ==
  \A f \in DOMAIN fanins' :
    /\ fanins'[f].waitingCount = CountBefore(f) - Cardinality(FirstFiredNow(f))
    /\ CountBefore(f) = 0 => fanins'[f].waitingCount = 0
C34_CountdownCountsWaitingSlots ==
  []CountdownIsWaiting /\ [][CountdownStep]_vars

\* a function of two callbacks completed, and a callback that had fired
\* before was called again after the countdown had reached zero
C34_Witness ==
  \E f \in DOMAIN fanins : \E i \in Successes(f) : \E j \in SlotCalls(f, 1) :
    /\ fanins[f].n = 2
    /\ fanins[f].waitingCount = 0
    /\ Waiting(f) = {}
    /\ j > i
    /\ log[j].turn > log[i].turn

(***************************************************************************)
(* C35.  While a handleArray call has recorded no failure (firstErr), its  *)
(* countdown (waitingCount) is the length of the array minus the number of *)
(* elements that have reported success, and is never negative; once a      *)
(* failure is recorded, the countdown, the results and the recorded        *)
(* failure are never changed again.                                        *)
(***************************************************************************)
NoFailureRecorded(o) == fanouts[o].firstErr = Null
SuccessReports(o) == {j \in AllReports(o) : IsSuccess(log[j])}
\* the reports that element callbacks took for successes: the failure
\* argument was not truthy
TakenForSuccess(o) == {j \in AllReports(o) : ~Truthy(log[j].err)}
CountdownIs(o, reports) ==
  /\ fanouts[o].waitingCount >= 0
  /\ NoFailureRecorded(o) =>
       fanouts[o].waitingCount = Len(fanouts[o].valueArray) - Cardinality(reports)
FrozenAfterFailure ==
  \A o \in DOMAIN fanouts :
    ~NoFailureRecorded(o) =>
      /\ fanouts'[o].waitingCount = fanouts[o].waitingCount
      /\ fanouts'[o].results = fanouts[o].results
      /\ fanouts'[o].firstErr = fanouts[o].firstErr
C35_CountdownCountsSuccesses ==
  /\ [](\A o \in DOMAIN fanouts : CountdownIs(o, SuccessReports(o)))
  /\ [][FrozenAfterFailure]_vars

\* what does hold: the countdown counts the reports whose failure argument
\* was not truthy, and a recorded failure freezes the state of the call
C35_HoldsForTruthy ==
  /\ [](\A o \in DOMAIN fanouts : CountdownIs(o, TakenForSuccess(o)))
  /\ [][FrozenAfterFailure]_vars

(***************************************************************************)
(* C36.  When a routine run by flatback.async does not catch a failure,    *)
(* the exception does not leave stepAsync: it rejects the returned promise *)
(* with the failure and goes nowhere else.  It does not reach the host,    *)
(* and when the routine was resumed inside the body of a function that     *)
(* another routine yielded, that body is not left by the exception, so the *)
(* failure is not raised at the other routine's yield.                     *)
(***************************************************************************)
\* the points where the routine of the promise ends with an exception
AsyncFailures ==
  {i \in DOMAIN log : /\ log[i].e = "resume"
                      /\ log[i].id = 1
                      /\ log[i].tag = "throw"
                      /\ ~gens[1].prog[log[i].k].catch}
\* the calls of functions without callbacks inside which event i happened
CallsAround(i) ==
  {x \in ShortcutCalls : x < i /\ \A j \in Ends(x) : j > i}
\* the failures of routines run by step: only these reach the host
FailuresOfOthers == {i \in UncaughtFailures : log[i].id # 1}
OnlyRejects(i) ==
  /\ i + 1 \in DOMAIN log
  /\ log[i + 1].e = "reject"
  /\ log[i + 1].err = log[i].err
  /\ settled = [state |-> "rejected", v |-> log[i].err]
NotInjected(i) ==
  /\ \A x \in CallsAround(i) : log[Min(Ends(x))].e = "return"
  /\ \A j \in DOMAIN log :
       (/\ j > i
        /\ log[j].turn = log[i].turn
        /\ log[j].e \in {"resume", "resumeFinished"}
        /\ log[j].id # 1)
       => log[j].tag = "next"
\* the same for the routine of a yielded flatback.async function: its failure
\* rejects the promise of that call and is raised in no function body
YieldedAsyncFailures ==
  {i \in DOMAIN log :
     /\ InnerByAsync
     /\ log[i].id = Inner
     /\ \/ log[i].e = "throws"
        \/ /\ log[i].e = "resume"
           /\ log[i].tag = "throw"
           /\ ~gens[Inner].prog[log[i].k].catch}
OnlyRejectsItsPromise(i) ==
  /\ i + 1 \in DOMAIN log
  /\ log[i + 1].e = "reject"
  /\ log[i + 1].id = Inner
  /\ log[i + 1].err = log[i].err
  /\ gens[Inner].promise = [state |-> "rejected", v |-> log[i].err]
  /\ \A j \in DOMAIN log :
       (j > i /\ log[j].turn = log[i].turn /\ log[j].e = "raise")
       => log[j].err # log[i].err
C36_AsyncFailureOnlyRejects ==
  /\ adapter = "async" =>
       /\ \A i \in AsyncFailures : OnlyRejects(i) /\ NotInjected(i)
       /\ gens[1].ctor = Null => Len(uncaught) <= Cardinality(FailuresOfOthers)
  /\ \A i \in YieldedAsyncFailures : OnlyRejectsItsPromise(i)
  /\ (adapter = "exec" /\ InnerByAsync) =>
       Len(uncaught) <= Cardinality({i \in UncaughtFailures : log[i].id = 1})

\* the routine of a flatback.async function was resumed inside the body of a
\* function that another routine had yielded, failed there, and the other
\* routine was then resumed normally
C36_Witness ==
  /\ adapter = "async"
  /\ settled.state = "rejected"
  /\ \E i \in AsyncFailures :
       /\ CallsAround(i) # {}
       /\ \E j \in ResumeOps(Inner) :
            j > i /\ log[j].turn = log[i].turn /\ log[j].tag = "next"

(***************************************************************************)
(* C37.  stepAsync drives a routine as step does.  Started on the same     *)
(* routine and taken through the same turns, the two make the same resume  *)
(* operations on it: the same gen.next and gen.throw, with the same values *)
(* and failures, at the same yields and in the same turns; as long as the  *)
(* routine has not ended, the heaps they leave are the same but for the    *)
(* name of the callback.  They part when the routine ends: step lets the   *)
(* exception out or does nothing, stepAsync rejects or resolves the        *)
(* promise.                                                                *)
(***************************************************************************)
\* the run of stepAsync that corresponds to a run of step: the callbacks of
\* routine 1 are those of stepAsync
SwapCb(cb) ==
  IF cb.kind = "step" /\ cb.id = 1 THEN Cb("stepAsync", 1, cb.i) ELSE cb
SwapEv(ev) ==
  IF ev.e \in {"callback", "settle"} /\ ev.tag = "step" /\ ev.id = 1
  THEN [ev EXCEPT !.tag = "stepAsync"]
  ELSE ev
AsAsync(st) ==
  [st EXCEPT
     !.timers = Tuple([i \in DOMAIN st.timers |->
                         [st.timers[i] EXCEPT !.cb = SwapCb(@)]], Len(st.timers)),
     !.promises = Tuple([i \in DOMAIN st.promises |->
                           [st.promises[i] EXCEPT !.cb = SwapCb(@)]],
                        Len(st.promises)),
     !.fanins = Tuple([i \in DOMAIN st.fanins |->
                         [st.fanins[i] EXCEPT !.cb = SwapCb(@)]], Len(st.fanins)),
     !.fanouts = Tuple([i \in DOMAIN st.fanouts |->
                          [st.fanouts[i] EXCEPT !.cb = SwapCb(@)]], Len(st.fanouts)),
     !.log = Tuple([i \in DOMAIN st.log |-> SwapEv(st.log[i])], Len(st.log))]
\* the resume operations made on routine 1, in order
ResumesOfOuter(st) ==
  SelectSeq(st.log,
            LAMBDA ev : ev.id = 1 /\ ev.e \in {"resume", "resumeFinished"})
\* a is what a turn leaves under step, b what it leaves under stepAsync
SameRun(a, b) ==
  /\ ResumesOfOuter(a) = ResumesOfOuter(b)
  /\ a.gens[1] = b.gens[1]
  /\ Live(a.gens[1]) => AsAsync(a) = b
  /\ ~Live(a.gens[1]) =>
       b.settled.state =
         (IF a.gens[1].status = "done" THEN "resolved" ELSE "rejected")
StartedAlike ==
  (adapter = "" /\ gens[1].ctor = Null) =>
    SameRun(step(Heap, 1, Undefined, Undefined),
            executor(stepAsync(Heap, 1, Undefined, Undefined), 1))
ContinuedAlike ==
  (adapter = "exec" /\ Live(gens[1])) =>
    /\ \A i \in DOMAIN timers :
         SameRun(timerCallback(Heap, i), timerCallback(AsAsync(Heap), i))
    /\ \A i \in DOMAIN promises :
         SameRun(reaction(Heap, i), reaction(AsAsync(Heap), i))
C37_StepAsyncResumesAsStep == StartedAlike /\ ContinuedAlike

\* a routine run by step is about to be resumed inside the body of a function
\* that another routine yielded and to fail there: under step the failure is
\* raised in the other routine, under stepAsync it is not, and the resume
\* operations on the routine itself are the same
C37_Witness ==
  /\ adapter = "exec"
  /\ Live(gens[1])
  /\ Len(gens) = 2
  /\ ResumeOps(1) # {}
  /\ \E i \in DOMAIN timers :
       /\ timerCallback(Heap, i).gens[1].status = "failed"
       /\ timerCallback(Heap, i).gens[Inner].status = "failed"
       /\ timerCallback(AsAsync(Heap), i).gens[Inner].status = "done"
       /\ timerCallback(AsAsync(Heap), i).settled.state = "rejected"

====
